---- MODULE Spec2Model ----
(***************************************************************************)
(* Model of the multi-server MCP client (MultiServerMCPClient) and of the  *)
(* tool adapter's result processing (_convertCallToolResult / _call).      *)
(***************************************************************************)
EXTENDS Integers, Sequences, FiniteSets, TLC

VARIABLES
    rawInput,           \* the constructor's argument (kept for reference)
    connections,        \* this.connections
    clients,            \* this.clients: server name -> session
    serverNameToTools,  \* this.serverNameToTools: server name -> tool names
    cleanupFunctions,   \* this.cleanupFunctions: one entry per session
    sessions,           \* every session ever connected, indexed by id
    initCall,           \* the running initializeConnections() call
    closeCall,          \* the running close() call
    result,             \* outcome of the last finished registry call
    opened,             \* names for which a transport was created
    convenienceNames,   \* names registered through connectToServer*
    toolCall,           \* one invoke() of a tool adapter
    timedCall,          \* one listResources / readResourceContent / listPrompts call
    inputCall,          \* one _normalizeInput call
    schemaCall,         \* one _ensureValidToolSchema call
    loadCall,           \* one loadMcpTools call
    promptCall,         \* one MCPPromptTemplate.formatMessages call
    flights,            \* _call invocations in flight at the same time
    closers             \* close() calls whose executions may overlap

vars == <<rawInput, connections, clients, serverNameToTools, cleanupFunctions,
          sessions, initCall, closeCall, result, opened, convenienceNames,
          toolCall, timedCall, inputCall, schemaCall, loadCall, promptCall,
          flights, closers>>

registryVars == <<rawInput, connections, clients, serverNameToTools,
                  cleanupFunctions, sessions, initCall, closeCall, result,
                  opened, convenienceNames>>

lateVars == <<loadCall, promptCall, flights, closers>>

utilVars == <<timedCall, inputCall, schemaCall, lateVars>>

----------------------------------------------------------------------------
(* Bounds *)

MaxSessions == 2
MaxConfig == 2
MaxContent == 3
\* clock ticks a utility call is followed for
MaxTicks == 6
\* length of the generated input texts of _normalizeInput
MaxInputLen == 3
\* nesting depth of the generated schemas
MaxDepth == 2

ServerNames == {"math", "weather"}

----------------------------------------------------------------------------
(* Constructor: validation of the raw connection configs *)

\* Shapes of one raw config value.  isObject: typeof config === 'object' and
\* not null.  command/args/url/server: the field is present with the type
\* the constructor tests for.
RawSpecs ==
    { [isObject |-> TRUE,  transport |-> "stdio", command |-> TRUE,  args |-> TRUE,  url |-> FALSE, server |-> FALSE],
      [isObject |-> TRUE,  transport |-> "none",  command |-> TRUE,  args |-> TRUE,  url |-> FALSE, server |-> FALSE],
      [isObject |-> TRUE,  transport |-> "stdio", command |-> FALSE, args |-> TRUE,  url |-> FALSE, server |-> FALSE],
      [isObject |-> TRUE,  transport |-> "stdio", command |-> TRUE,  args |-> FALSE, url |-> FALSE, server |-> FALSE],
      [isObject |-> TRUE,  transport |-> "sse",   command |-> FALSE, args |-> FALSE, url |-> TRUE,  server |-> FALSE],
      [isObject |-> TRUE,  transport |-> "sse",   command |-> TRUE,  args |-> TRUE,  url |-> FALSE, server |-> FALSE],
      [isObject |-> TRUE,  transport |-> "programmatic", command |-> FALSE, args |-> FALSE, url |-> FALSE, server |-> TRUE],
      [isObject |-> TRUE,  transport |-> "programmatic", command |-> FALSE, args |-> FALSE, url |-> TRUE,  server |-> FALSE],
      [isObject |-> FALSE, transport |-> "none",  command |-> FALSE, args |-> FALSE, url |-> FALSE, server |-> FALSE] }

\* The constructor's argument: undefined, or a record of distinct server
\* names, in insertion order.
RawConfigs ==
    { [defined |-> FALSE, entries |-> << >>] } \cup
    { [defined |-> TRUE, entries |-> e] :
        e \in { s \in UNION { [1..n -> [name : ServerNames, config : RawSpecs]] : n \in 0..MaxConfig } :
                  \A i, j \in DOMAIN s : i # j => s[i].name # s[j].name } }

ProcessedTransportNoUrlCheck(config) ==
    IF ~config.isObject THEN "dropped"
    ELSE IF config.transport = "sse" THEN "sse"
    ELSE IF config.transport = "programmatic"
         THEN IF ~config.server THEN "dropped" ELSE "programmatic"
    ELSE IF ~config.command THEN "dropped"
    ELSE IF ~config.args THEN "dropped"
    ELSE "stdio"

\* The transport a raw config is registered with, "dropped" when the
\* constructor skips it (continue).
ProcessedTransport(config) ==
    IF ~config.isObject THEN "dropped"
    ELSE IF config.transport = "sse"
         THEN IF ~config.url THEN "dropped" ELSE "sse"
    ELSE IF config.transport = "programmatic"
         THEN IF ~config.server THEN "dropped" ELSE "programmatic"
    ELSE IF ~config.command THEN "dropped"
    ELSE IF ~config.args THEN "dropped"
    ELSE "stdio"

RECURSIVE ProcessEntries(_)
ProcessEntries(entries) ==
    IF entries = << >> THEN << >>
    ELSE LET e == Head(entries)
             t == ProcessedTransport(e.config)
         IN  IF t = "dropped"
             THEN ProcessEntries(Tail(entries))
             ELSE <<[name |-> e.name, transport |-> t]>> \o ProcessEntries(Tail(entries))

\* this.connections after the constructor
ProcessConnections(raw) ==
    IF raw.defined
    THEN [defined |-> TRUE, entries |-> ProcessEntries(raw.entries)]
    ELSE [defined |-> FALSE, entries |-> << >>]

----------------------------------------------------------------------------
(* Registry state helpers *)

EmptyMap == [n \in {} |-> 0]

\* Map.prototype.set
MapSet(m, k, v) == [x \in DOMAIN m \cup {k} |-> IF x = k THEN v ELSE m[x]]

IdleInit == [pc |-> "idle", op |-> "none", entries |-> << >>, idx |-> 0, log |-> << >>]

IdleClose == [pc |-> "idle", idx |-> 0]

IdleTimed ==
    [pc |-> "idle", op |-> "none", option |-> 0, timeout |-> 0, elapsed |-> 0,
     request |-> "none", settledBy |-> "none", timerFired |-> FALSE,
     sent |-> << >>, settled |-> 0,
     outcome |-> [status |-> "none", value |-> "none", cause |-> "", message |-> ""]]

IdleInput ==
    [pc |-> "idle", input |-> [t |-> "undefined", v |-> << >>],
     outcome |-> [status |-> "none", value |-> [t |-> "undefined", v |-> << >>]]]

IdleSchema == [pc |-> "idle", input |-> "none", output |-> "none"]

IdleLoad == [pc |-> "idle", response |-> "none", tools |-> << >>]

IdlePrompt ==
    [pc |-> "idle", promptName |-> "none", values |-> "none", getPrompt |-> "none",
     request |-> "pending", timerFired |-> FALSE, elapsed |-> 0, cause |-> "none",
     outcome |-> [status |-> "none", source |-> "none", roles |-> << >>, message |-> ""]]

NoFlights == [calls |-> << >>, order |-> << >>]

NoClosers == << >>

NoPre == [clients |-> EmptyMap, tools |-> EmptyMap, cleanups |-> << >>]

NoResult ==
    [op |-> "none", status |-> "none", ret |-> EmptyMap, log |-> << >>,
     pre |-> NoPre, threw |-> {}]

\* The registry's maps as seen when a call starts
PreState ==
    [clients |-> clients, tools |-> serverNameToTools, cleanups |-> cleanupFunctions]

\* A session is live from the moment client.connect() succeeded until its
\* cleanup action is invoked.
Live(sid) == sessions[sid].cleanupCalls = 0

LiveSessions(name) == { sid \in DOMAIN sessions : sessions[sid].name = name /\ Live(sid) }

----------------------------------------------------------------------------
(* loadMcpTools as used by initializeConnections *)

\* What client.listTools() may answer: a rejection, or a catalog whose
\* entries may lack a name.
ListToolsResponses ==
    { [ok |-> FALSE, tools |-> << >>],
      [ok |-> TRUE,  tools |-> << >>],
      [ok |-> TRUE,  tools |-> <<[name |-> "add"]>>],
      [ok |-> TRUE,  tools |-> <<[name |-> ""], [name |-> "multiply"]>>] }

RECURSIVE NamedTools(_)
NamedTools(infos) ==
    IF infos = << >> THEN << >>
    ELSE IF Head(infos).name = ""
         THEN NamedTools(Tail(infos))
         ELSE <<Head(infos).name>> \o NamedTools(Tail(infos))

LoadMcpToolsPartial(resp) == IF resp.ok THEN NamedTools(resp.tools) ELSE <<"partial">>

\* loadMcpTools: a failing listTools is caught and yields no tools
LoadMcpTools(resp) == IF resp.ok THEN NamedTools(resp.tools) ELSE << >>

----------------------------------------------------------------------------
(* initializeConnections *)

ConnectOutcomes == {"ok", "transportFail", "handshakeFail"}

\* End of one iteration of the for loop over Object.entries(connections)
AfterEntry(call) ==
    IF call.idx < Len(call.entries)
    THEN [call EXCEPT !.pc = "connect", !.idx = @ + 1]
    ELSE [call EXCEPT !.pc = "return"]

ConnectFailedRethrow(call) == [call EXCEPT !.pc = "raise"]

\* catch (error) around one connection: log and go on with the next entry
ConnectFailed(call) == AfterEntry(call)

\* The synchronous start of initializeConnections()
BeginInit(op, conns) ==
    IF ~conns.defined
    THEN [IdleInit EXCEPT !.pc = "returnEmpty", !.op = op]
    ELSE IF conns.entries = << >>
         THEN [IdleInit EXCEPT !.pc = "return", !.op = op]
         ELSE [pc |-> "connect", op |-> op, entries |-> conns.entries,
               idx |-> 1, log |-> << >>]

\* Suspend at the next await, or settle the call's promise
SettleInit(call, tools, pre) ==
    /\ IF call.pc \in {"connect", "catalog"}
       THEN /\ initCall' = call
            /\ result' = [NoResult EXCEPT !.pre = pre]
       ELSE /\ initCall' = IdleInit
            /\ result' = [op |-> call.op,
                          status |-> IF call.pc = "raise" THEN "raised" ELSE "returned",
                          ret |-> IF call.pc = "return" THEN tools ELSE EmptyMap,
                          log |-> call.log, pre |-> pre, threw |-> {}]
    /\ opened' = IF call.pc = "connect"
                 THEN opened \cup {call.entries[call.idx].name}
                 ELSE opened

CanStart(conns) ==
    /\ initCall.pc = "idle"
    /\ closeCall.pc = "idle"
    /\ Len(sessions) + Len(conns.entries) <= MaxSessions

InitializeConnections ==
    /\ CanStart(connections)
    /\ SettleInit(BeginInit("initializeConnections", connections),
                  serverNameToTools, PreState)
    /\ UNCHANGED <<rawInput, connections, clients, serverNameToTools,
                   cleanupFunctions, sessions, closeCall, convenienceNames, toolCall, utilVars>>

SingleConnectionAdded(name, transport) ==
    [defined |-> TRUE,
     entries |-> connections.entries \o <<[name |-> name, transport |-> transport]>>]

\* const connections = { [serverName]: connection }
SingleConnection(name, transport) ==
    [defined |-> TRUE, entries |-> <<[name |-> name, transport |-> transport]>>]

ConnectSingle(op, name, transport) ==
    LET conns == SingleConnection(name, transport) IN
    /\ CanStart(conns)
    /\ connections' = conns
    /\ convenienceNames' = convenienceNames \cup {name}
    /\ SettleInit(BeginInit(op, conns), serverNameToTools, PreState)
    /\ UNCHANGED <<rawInput, clients, serverNameToTools, cleanupFunctions,
                   sessions, closeCall, toolCall, utilVars>>

ConnectToServer == \E name \in ServerNames :
    ConnectSingle("connectToServer", name, "programmatic")

ConnectToServerViaStdio == \E name \in ServerNames :
    ConnectSingle("connectToServerViaStdio", name, "stdio")

ConnectToServerViaSSE == \E name \in ServerNames :
    ConnectSingle("connectToServerViaSSE", name, "sse")

\* await client.connect(transport) settles
ConnectResolve == \E outcome \in ConnectOutcomes :
    /\ initCall.pc = "connect"
    /\ LET name == initCall.entries[initCall.idx].name
           sid == Len(sessions) + 1
           logged == [initCall EXCEPT !.log = Append(@,
                        [name |-> name, connect |-> outcome, catalog |-> "none",
                         sid |-> IF outcome = "ok" THEN sid ELSE 0, tools |-> << >>])]
       IN  IF outcome = "ok"
           THEN /\ sessions' = Append(sessions, [name |-> name, cleanupCalls |-> 0])
                /\ clients' = MapSet(clients, name, sid)
                /\ cleanupFunctions' = Append(cleanupFunctions, sid)
                /\ SettleInit([logged EXCEPT !.pc = "catalog"], serverNameToTools, result.pre)
           ELSE /\ SettleInit(ConnectFailed(logged), serverNameToTools, result.pre)
                /\ UNCHANGED <<sessions, clients, cleanupFunctions>>
    /\ UNCHANGED <<rawInput, connections, serverNameToTools, closeCall,
                   convenienceNames, toolCall, utilVars>>

\* await loadMcpTools(client) settles
CatalogResolve == \E resp \in ListToolsResponses :
    /\ initCall.pc = "catalog"
    /\ LET name == initCall.entries[initCall.idx].name
           tools == LoadMcpTools(resp)
           last == Len(initCall.log)
           logged == [initCall EXCEPT !.log[last] =
                        [@ EXCEPT !.catalog = IF resp.ok THEN "ok" ELSE "fail",
                                  !.tools = tools]]
       IN  /\ serverNameToTools' = MapSet(serverNameToTools, name, tools)
           /\ SettleInit(AfterEntry(logged), serverNameToTools', result.pre)
    /\ UNCHANGED <<rawInput, connections, clients, cleanupFunctions, sessions,
                   closeCall, convenienceNames, toolCall, utilVars>>

----------------------------------------------------------------------------
(* close *)

\* End of one iteration of the for loop over this.cleanupFunctions
AfterCleanup(call) ==
    IF call.idx < Len(cleanupFunctions)
    THEN [call EXCEPT !.idx = @ + 1]
    ELSE [call EXCEPT !.pc = "return"]

CleanupFailedRethrow(call) == [call EXCEPT !.pc = "raise"]

\* catch (error) around one cleanup: log and go on with the next one
CleanupFailed(call) == AfterCleanup(call)

ClearedRegistryKeepTools ==
    [clients |-> EmptyMap, tools |-> serverNameToTools, cleanups |-> << >>]

\* this.cleanupFunctions = []; this.clients.clear(); this.serverNameToTools.clear()
ClearedRegistry ==
    [clients |-> EmptyMap, tools |-> EmptyMap, cleanups |-> << >>]

\* The synchronous start of close()
BeginClose ==
    IF cleanupFunctions = << >>
    THEN [IdleClose EXCEPT !.pc = "return"]
    ELSE [pc |-> "cleanup", idx |-> 1]

\* Invoke the next cleanup and suspend on it, or settle the call's promise
SettleClose(call, threw, pre) ==
    IF call.pc = "cleanup"
    THEN /\ closeCall' = call
         /\ sessions' = [sessions EXCEPT ![cleanupFunctions[call.idx]].cleanupCalls = @ + 1]
         /\ result' = [NoResult EXCEPT !.pre = pre, !.threw = threw]
         /\ UNCHANGED <<clients, serverNameToTools, cleanupFunctions>>
    ELSE /\ closeCall' = IdleClose
         /\ result' = [op |-> "close",
                       status |-> IF call.pc = "raise" THEN "raised" ELSE "returned",
                       ret |-> EmptyMap, log |-> << >>, pre |-> pre, threw |-> threw]
         /\ IF call.pc = "return"
            THEN /\ clients' = ClearedRegistry.clients
                 /\ serverNameToTools' = ClearedRegistry.tools
                 /\ cleanupFunctions' = ClearedRegistry.cleanups
            ELSE UNCHANGED <<clients, serverNameToTools, cleanupFunctions>>
         /\ UNCHANGED sessions

Close ==
    /\ initCall.pc = "idle"
    /\ closeCall.pc = "idle"
    /\ SettleClose(BeginClose, {}, PreState)
    /\ UNCHANGED <<rawInput, connections, initCall, opened, convenienceNames, toolCall, utilVars>>

\* await cleanup() settles
CleanupResolve == \E throws \in BOOLEAN :
    /\ closeCall.pc = "cleanup"
    /\ LET sid == cleanupFunctions[closeCall.idx] IN
       IF throws
       THEN SettleClose(CleanupFailed(closeCall), result.threw \cup {sid}, result.pre)
       ELSE SettleClose(AfterCleanup(closeCall), result.threw, result.pre)
    /\ UNCHANGED <<rawInput, connections, initCall, opened, convenienceNames, toolCall, utilVars>>

----------------------------------------------------------------------------
(* Tool adapter: _call and _convertCallToolResult *)

\* Content items of a tool response.  hasText is FALSE when the item has no
\* text field (text is undefined).
TextItem(t) == [type |-> "text", hasText |-> TRUE, text |-> t]

ContentItems ==
    { TextItem("8"), TextItem("boom"), TextItem(""),
      [type |-> "text",  hasText |-> FALSE, text |-> ""],
      [type |-> "image", hasText |-> FALSE, text |-> ""] }

\* JavaScript values that flow through the adapter: a string (s), one
\* content item (items holds it), a list of content items, a plain object,
\* undefined, the typed result object.
Str(t) == [k |-> "str", s |-> t, items |-> << >>]

List(is) == [k |-> "list", s |-> "", items |-> is]

Item(i) == [k |-> "item", s |-> "", items |-> <<i>>]

Obj == [k |-> "obj", s |-> "", items |-> << >>]

Undefined == [k |-> "undef", s |-> "", items |-> << >>]

\* The typed result object itself, { isError, content }
ResultObject == [k |-> "result", s |-> "", items |-> << >>]

Contents ==
    { List(is) : is \in UNION { [1..n -> ContentItems] : n \in 0..MaxContent } }
    \cup { Str("code result"), Str(""), Obj, Undefined }

\* What client.callTool() may resolve to.  defined is FALSE for a null or
\* undefined result; isError is the raw flag.
Responses ==
    { [defined |-> FALSE, isError |-> "absent", content |-> Undefined] } \cup
    [defined : {TRUE}, isError : {"true", "false", "absent"}, content : Contents]

\* The value is falsy (!value)
Falsy(v) == v.k = "undef" \/ (v.k = "str" /\ v.s = "")

\* content.find(item => item.type === 'text'): index of the first text item,
\* 0 when there is none
RECURSIVE FindText(_, _)
FindText(is, i) ==
    IF i > Len(is) THEN 0
    ELSE IF is[i].type = "text" THEN i
    ELSE FindText(is, i + 1)

\* String(value)
RECURSIVE JoinObjects(_)
JoinObjects(is) ==
    IF is = << >> THEN ""
    ELSE IF Len(is) = 1 THEN "[object Object]"
    ELSE "[object Object]," \o JoinObjects(Tail(is))

JsString(v) ==
    CASE v.k = "str"   -> v.s
      [] v.k = "list"  -> JoinObjects(v.items)
      [] v.k = "undef" -> "undefined"
      [] OTHER         -> "[object Object]"

Returned(v) == [threw |-> FALSE, value |-> v, message |-> ""]

Threw(m) == [threw |-> TRUE, value |-> Undefined, message |-> m]

\* result is the typed result built by _call: [isError, content]
ConvertCallToolResultIgnoreFlag(typed) ==
    LET c == typed.content
        t == IF c.k = "list" THEN FindText(c.items, 1) ELSE 0
    IN  IF c.k = "list"
        THEN IF t # 0 /\ c.items[t].hasText
             THEN Returned(Str(c.items[t].text))
             ELSE IF Len(c.items) = 1 THEN Returned(Item(c.items[1])) ELSE Returned(c)
        ELSE Returned(ResultObject)

ConvertCallToolResultFirstItemOnly(typed) ==
    LET c == typed.content
        t == IF c.k = "list" /\ c.items # << >> /\ c.items[1].type = "text" THEN 1 ELSE 0
    IN  IF typed.isError
        THEN IF t # 0 /\ c.items[t].hasText /\ c.items[t].text # ""
             THEN Threw(c.items[t].text)
             ELSE Threw("Tool execution failed")
        ELSE IF c.k = "list"
        THEN IF t # 0 /\ c.items[t].hasText
             THEN Returned(Str(c.items[t].text))
             ELSE IF Len(c.items) = 1 THEN Returned(Item(c.items[1])) ELSE Returned(c)
        ELSE Returned(ResultObject)

\* _convertCallToolResult
ConvertCallToolResult(typed) ==
    LET c == typed.content
        t == IF c.k = "list" THEN FindText(c.items, 1) ELSE 0
    IN  IF typed.isError
        THEN IF t # 0 /\ c.items[t].hasText /\ c.items[t].text # ""
             THEN Threw(c.items[t].text)
             ELSE Threw("Tool execution failed")
        ELSE IF c.k = "list"
        THEN IF t # 0 /\ c.items[t].hasText
             THEN Returned(Str(c.items[t].text))
             ELSE IF Len(c.items) = 1 THEN Returned(Item(c.items[1])) ELSE Returned(c)
        ELSE Returned(ResultObject)

NoOutcome == [status |-> "none", error |-> "none", value |-> Undefined, message |-> ""]

\* _call from the moment client.callTool() has resolved
CallResolved(resp) ==
    IF ~resp.defined
    THEN [status |-> "resolved", error |-> "none", value |-> Str(""), message |-> ""]
    ELSE LET typed == [isError |-> (resp.isError = "true"),
                       content |-> IF Falsy(resp.content) THEN List(<< >>) ELSE resp.content]
             processed == ConvertCallToolResult(typed)
         IN  IF processed.threw
             THEN [status |-> "rejected", error |-> "ToolException",
                   value |-> Undefined, message |-> processed.message]
             ELSE [status |-> "resolved", error |-> "none",
                   value |-> Str(JsString(processed.value)), message |-> ""]

ToolNames == {"add", "search"}

\* What client.callTool() may throw or reject with: an Error with a
\* message, or a value that is not an Error (its String() is text).
CallToolErrors ==
    { [isError |-> TRUE,  text |-> "Connection closed"],
      [isError |-> TRUE,  text |-> ""],
      [isError |-> FALSE, text |-> "ECONNRESET"] }

CallRejectedSwallowed(name, err) ==
    [status |-> "resolved", error |-> "none", value |-> Str(""), message |-> ""]

\* _call's catch block for an error that does not come from the adapter
CallRejected(name, err) ==
    [status |-> "rejected", error |-> "ToolException", value |-> Undefined,
     message |-> IF err.isError
                 THEN "Error calling tool " \o name \o ": " \o err.text
                 ELSE "Unknown error calling tool " \o name \o ": " \o err.text]

\* The inputs of call(): a value that is not a plain object (it is coerced
\* and handed to _call directly), an object the schema accepts, an object
\* the schema rejects.
CallInputs == {"nonObject", "validObject", "invalidObject"}

\* StructuredTool.call rejects an object that fails the schema before _call
\* runs.  call() returns super.call(input) without awaiting it, so the
\* rejection settles the caller's promise and does not pass through the
\* catch block of call(); the message does not contain the word the catch
\* block looks for either.
ValidationFailure ==
    [status |-> "rejected", error |-> "ToolInputParsingException", value |-> Undefined,
     message |-> "Received tool input did not match expected schema"]

IdleTool ==
    [pc |-> "idle", name |-> "add", input |-> "nonObject", sent |-> 0, elapsed |-> FALSE,
     thrown |-> [raised |-> FALSE, isError |-> FALSE, text |-> ""],
     response |-> [defined |-> FALSE, isError |-> "absent", content |-> Undefined],
     outcome |-> NoOutcome]

\* invoke(): call() validates an object input, then _call issues
\* client.callTool() and waits
Invoke == \E name \in ToolNames, input \in CallInputs :
    /\ toolCall.pc \in {"idle", "done"}
    /\ toolCall' = IF input = "invalidObject"
                   THEN [IdleTool EXCEPT !.pc = "done", !.name = name, !.input = input,
                                         !.outcome = ValidationFailure]
                   ELSE [IdleTool EXCEPT !.pc = "calling", !.name = name, !.input = input,
                                         !.sent = 1]
    /\ UNCHANGED <<registryVars, utilVars>>

\* await client.callTool() resolves
CallToolResolve == \E resp \in Responses :
    /\ toolCall.pc = "calling"
    /\ toolCall' = [toolCall EXCEPT !.pc = "done", !.response = resp,
                                    !.outcome = CallResolved(resp)]
    /\ UNCHANGED <<registryVars, utilVars>>

OnCallToolRejectedRetry(call, err) ==
    IF call.sent < 2
    THEN [call EXCEPT !.sent = @ + 1]
    ELSE [call EXCEPT !.pc = "done", !.outcome = CallRejected(call.name, err),
                      !.thrown = [raised |-> TRUE, isError |-> err.isError, text |-> err.text]]

\* _call after client.callTool() threw or rejected: no second request
OnCallToolRejected(call, err) ==
    [call EXCEPT !.pc = "done", !.outcome = CallRejected(call.name, err),
                 !.thrown = [raised |-> TRUE, isError |-> err.isError, text |-> err.text]]

\* await client.callTool() rejects
CallToolReject == \E err \in CallToolErrors :
    /\ toolCall.pc = "calling"
    /\ toolCall' = OnCallToolRejected(toolCall, err)
    /\ UNCHANGED <<registryVars, utilVars>>

\* Time passes while the call is pending: any deadline the caller had in
\* mind is over.  _call has no timer, nothing in the adapter reacts.
DeadlineElapse ==
    /\ toolCall.pc = "calling"
    /\ ~toolCall.elapsed
    /\ toolCall' = [toolCall EXCEPT !.elapsed = TRUE]
    /\ UNCHANGED <<registryVars, utilVars>>

InitTool ==
    /\ rawInput = [defined |-> FALSE, entries |-> << >>]
    /\ connections = ProcessConnections(rawInput)
    /\ clients = EmptyMap
    /\ serverNameToTools = EmptyMap
    /\ cleanupFunctions = << >>
    /\ sessions = << >>
    /\ initCall = IdleInit
    /\ closeCall = IdleClose
    /\ result = NoResult
    /\ opened = {}
    /\ convenienceNames = {}
    /\ toolCall = IdleTool
    /\ timedCall = IdleTimed
    /\ inputCall = IdleInput
    /\ schemaCall = IdleSchema
    /\ loadCall = IdleLoad
    /\ promptCall = IdlePrompt
    /\ flights = NoFlights
    /\ closers = NoClosers

NextTool ==
    \/ Invoke
    \/ CallToolResolve
    \/ CallToolReject
    \/ DeadlineElapse

SpecTool == InitTool /\ [][NextTool]_vars

----------------------------------------------------------------------------
(* Resource and prompt utilities: listResources, readResourceContent, listPrompts *)

\* Each call races one request against a timer.  Time is counted in
\* milliseconds and advances in steps of TickMs.
DEFAULT_TIMEOUT == 5000

TickMs == 1000

TimedOps == {"listResources", "readResourceContent", "listPrompts"}

\* options.timeout; 0 stands for every falsy value (absent, undefined, 0)
TimeoutOptions == {0, 1000, 2000}

\* how the request promise settles, when it does
RequestSettlements == {"valid", "invalid", "zodError", "error"}

RequestErrorText == "ECONNRESET"

EffectiveTimeoutNoDefault(option) == option

\* const timeout = options.timeout || DEFAULT_TIMEOUT
EffectiveTimeout(option) ==
    IF option = 0 THEN DEFAULT_TIMEOUT ELSE option

OpNoun(op) ==
    CASE op = "listResources" -> "listing resources"
      [] op = "readResourceContent" -> "reading resource"
      [] op = "listPrompts" -> "listing prompts"

FailurePrefix(op) ==
    CASE op = "listResources" -> "Failed to list resources: "
      [] op = "readResourceContent" -> "Failed to read resource: "
      [] op = "listPrompts" -> "Failed to list prompts: "

\* the value returned for a response that is unusable
EmptyValue(op) ==
    IF op = "readResourceContent" THEN "null" ELSE "[]"

\* the value returned for a usable response
ResponseValue(op) ==
    CASE op = "listResources" -> "response.resources"
      [] op = "readResourceContent" -> "response.content"
      [] op = "listPrompts" -> "response.prompts"

TimeoutMessage(op, timeout) ==
    "Timeout " \o OpNoun(op) \o " after " \o ToString(timeout) \o "ms"

TimedResolved(value) ==
    [status |-> "resolved", value |-> value, cause |-> "", message |-> ""]

\* outer catch: throw new Error(`Failed to ...: ${error.message}`)
TimedRejected(op, cause) ==
    [status |-> "rejected", value |-> "none", cause |-> cause,
     message |-> FailurePrefix(op) \o cause]

\* the timer callback wins the race
OnTimer(call) ==
    [call EXCEPT !.pc = "done", !.settledBy = "timer", !.timerFired = TRUE,
                 !.settled = @ + 1,
                 !.outcome = TimedRejected(call.op, TimeoutMessage(call.op, call.timeout))]

\* the request promise wins the race
OnRequestSettled(call, how) ==
    [call EXCEPT !.pc = "done", !.settledBy = "request", !.request = how,
                 !.settled = @ + 1,
                 !.outcome =
                     CASE how = "valid" -> TimedResolved(ResponseValue(call.op))
                       [] how = "invalid" -> TimedResolved(EmptyValue(call.op))
                       [] how = "zodError" -> TimedResolved(EmptyValue(call.op))
                       [] how = "error" -> TimedRejected(call.op, RequestErrorText)]

OnLateResponseDelivered(call, how) == OnRequestSettled(call, how)

\* the request promise settles after the timer has won the race: the race
\* is already settled, the response goes nowhere
OnLateResponse(call, how) == [call EXCEPT !.request = how]

\* the timer callback runs after the request has won the race: the timer
\* is never cleared, its rejection goes nowhere
OnLateTimer(call) == [call EXCEPT !.timerFired = TRUE]

\* the call starts: getClient(serverName), then both promises are created
StartTimed ==
    /\ timedCall.pc \in {"idle", "done"}
    /\ \E op \in TimedOps, option \in TimeoutOptions, known \in BOOLEAN :
          timedCall' =
              IF known
              THEN [IdleTimed EXCEPT !.pc = "racing", !.op = op, !.option = option,
                                     !.timeout = EffectiveTimeout(option),
                                     !.sent = <<"request">>]
              ELSE [IdleTimed EXCEPT !.pc = "done", !.op = op, !.option = option,
                                     !.settledBy = "lookup", !.settled = 1,
                                     !.outcome = [status |-> "rejected", value |-> "none",
                                                  cause |-> "",
                                                  message |-> "Server not found"]]
    /\ UNCHANGED <<registryVars, toolCall, inputCall, schemaCall, lateVars>>

\* time passes while the timer is pending; a due timer runs before more
\* time passes
Tick ==
    /\ timedCall.pc \in {"racing", "done"}
    /\ timedCall.settledBy # "lookup"
    /\ ~timedCall.timerFired
    /\ timedCall.elapsed < timedCall.timeout
    /\ timedCall.elapsed + TickMs <= MaxTicks * TickMs
    /\ timedCall' = [timedCall EXCEPT !.elapsed = @ + TickMs]
    /\ UNCHANGED <<registryVars, toolCall, inputCall, schemaCall, lateVars>>

\* setTimeout(() => reject(...), timeout)
TimerFires ==
    /\ timedCall.pc = "racing"
    /\ timedCall.elapsed >= timedCall.timeout
    /\ timedCall' = OnTimer(timedCall)
    /\ UNCHANGED <<registryVars, toolCall, inputCall, schemaCall, lateVars>>

RequestSettles ==
    /\ timedCall.pc = "racing"
    /\ \E how \in RequestSettlements : timedCall' = OnRequestSettled(timedCall, how)
    /\ UNCHANGED <<registryVars, toolCall, inputCall, schemaCall, lateVars>>

\* the request settles although the caller already got the timeout failure
LateResponse ==
    /\ timedCall.pc = "done"
    /\ timedCall.settledBy = "timer"
    /\ timedCall.request = "none"
    /\ \E how \in RequestSettlements : timedCall' = OnLateResponse(timedCall, how)
    /\ UNCHANGED <<registryVars, toolCall, inputCall, schemaCall, lateVars>>

\* the timer runs although the request already settled the race
LateTimer ==
    /\ timedCall.pc = "done"
    /\ timedCall.settledBy = "request"
    /\ ~timedCall.timerFired
    /\ timedCall.elapsed >= timedCall.timeout
    /\ timedCall' = OnLateTimer(timedCall)
    /\ UNCHANGED <<registryVars, toolCall, inputCall, schemaCall, lateVars>>

InitTimed == InitTool

NextTimed ==
    \/ StartTimed
    \/ Tick
    \/ TimerFires
    \/ RequestSettles
    \/ LateResponse
    \/ LateTimer

SpecTimed == InitTimed /\ [][NextTimed]_vars

----------------------------------------------------------------------------
(* Input coercion: _normalizeInput *)

\* Strings are sequences of characters.  JavaScript values are records
\* [t |-> type, v |-> content]: the content of a string or a number is its
\* characters, of an array its elements, of an object its members
\* [k |-> key, v |-> value] in insertion order.
JV(t, v) == [t |-> t, v |-> v]

JString(chars) == JV("string", chars)

JNumber(chars) == JV("number", chars)

JArray(elements) == JV("array", elements)

JObject(members) == JV("object", members)

JNull == JV("null", << >>)

JUndefined == JV("undefined", << >>)

JTrue == JV("boolean", <<"t", "r", "u", "e">>)

JFalse == JV("boolean", <<"f", "a", "l", "s", "e">>)

JBigInt == JV("bigint", <<"5">>)

Member(k, v) == [k |-> k, v |-> v]

Whitespace == {" ", "\n"}

Digits == {"0", "1", "2", "3", "4", "5", "6", "7", "8", "9"}

\* [a-zA-Z0-9_] over the characters that occur in the inputs
WordChars ==
    Digits \cup {"_", "a", "b", "c", "d", "e", "f", "g", "h", "i", "j", "k", "l", "m",
                 "n", "o", "p", "q", "r", "s", "t", "u", "v", "w", "x", "y", "z"}

\* the backtick character
Backtick == "BACKTICK"

Fence == <<Backtick, Backtick, Backtick>>

Least(S) == CHOOSE x \in S : \A y \in S : x <= y

\* String.prototype.trim
RECURSIVE TrimStart(_)
TrimStart(s) ==
    IF s # << >> /\ Head(s) \in Whitespace THEN TrimStart(Tail(s)) ELSE s

RECURSIVE TrimEnd(_)
TrimEnd(s) ==
    IF s # << >> /\ s[Len(s)] \in Whitespace
    THEN TrimEnd(SubSeq(s, 1, Len(s) - 1))
    ELSE s

Trim(s) == TrimEnd(TrimStart(s))

\* pat occurs in s at position i
At(s, i, pat) ==
    /\ i >= 1
    /\ i + Len(pat) - 1 <= Len(s)
    /\ SubSeq(s, i, i + Len(pat) - 1) = pat

\* String.prototype.includes
Includes(s, pat) == \E i \in 1..Len(s) : At(s, i, pat)

\* the first position from i on whose character is not in the class
RECURSIVE Skip(_, _, _)
Skip(s, i, class) ==
    IF i <= Len(s) /\ s[i] \in class THEN Skip(s, i + 1, class) ELSE i

NoMatch == [matched |-> FALSE, group |-> << >>]

\* inputStr.match(...) of the code block rule: the match starts at the first
\* fence, the group starts after the optional tag and the white space
\* and is the shortest text that is followed by white space and a fence
CodeBlockMatch(s) ==
    IF ~Includes(s, Fence)
    THEN NoMatch
    ELSE LET open == Least({i \in 1..Len(s) : At(s, i, Fence)})
             afterTag == IF At(s, open + 3, <<"j", "s", "o", "n">>)
                         THEN open + 7 ELSE open + 3
             start == Skip(s, afterTag, Whitespace)
             ends == {e \in (start - 1)..Len(s) :
                         At(s, Skip(s, e + 1, Whitespace), Fence)}
         IN  IF ends = {}
             THEN NoMatch
             ELSE [matched |-> TRUE, group |-> SubSeq(s, start, Least(ends))]

\* first replace() of fixedJson, from position i on: a brace or comma, white
\* space, a word and white space before a colon; the word gets double quotes
RECURSIVE QuoteBareKeys(_, _)
QuoteBareKeys(s, i) ==
    IF i > Len(s)
    THEN << >>
    ELSE LET word == Skip(s, i + 1, Whitespace)
             after == Skip(s, word, WordChars)
             colon == Skip(s, after, Whitespace)
         IN  IF /\ s[i] \in {"{", ","}
                /\ after > word
                /\ colon <= Len(s)
                /\ s[colon] = ":"
             THEN SubSeq(s, i, word - 1) \o <<"\"">> \o SubSeq(s, word, after - 1)
                      \o <<"\"">> \o SubSeq(s, after, colon)
                      \o QuoteBareKeys(s, colon + 1)
             ELSE <<s[i]>> \o QuoteBareKeys(s, i + 1)

\* second replace() of fixedJson, from position i on: a colon, white space
\* and a single-quoted text become a colon, one space and the text in double
\* quotes
RECURSIVE DoubleQuoteValues(_, _)
DoubleQuoteValues(s, i) ==
    IF i > Len(s)
    THEN << >>
    ELSE LET open == Skip(s, i + 1, Whitespace)
             closes == {j \in (open + 1)..Len(s) : s[j] = "'"}
         IN  IF /\ s[i] = ":"
                /\ open <= Len(s)
                /\ s[open] = "'"
                /\ closes # {}
             THEN <<":", " ", "\"">> \o SubSeq(s, open + 1, Least(closes) - 1)
                      \o <<"\"">> \o DoubleQuoteValues(s, Least(closes) + 1)
             ELSE <<s[i]>> \o DoubleQuoteValues(s, i + 1)

FixedJson(inputStr) == DoubleQuoteValues(QuoteBareKeys(inputStr, 1), 1)

\* JSON.parse.  A parse step returns the value and the position after it.
\* Escape sequences, fractions and exponents do not occur in the inputs.
ParseFailed == [ok |-> FALSE, val |-> JUndefined, next |-> 0]

Parsed(val, next) == [ok |-> TRUE, val |-> val, next |-> next]

ParseString(s, i) ==
    LET closes == {j \in (i + 1)..Len(s) : s[j] = "\""}
    IN  IF closes = {}
        THEN ParseFailed
        ELSE LET body == SubSeq(s, i + 1, Least(closes) - 1)
             IN  IF \E k \in 1..Len(body) : body[k] = "\n"
                 THEN ParseFailed
                 ELSE Parsed(JString(body), Least(closes) + 1)

ParseNumber(s, i) ==
    LET first == IF s[i] = "-" THEN i + 1 ELSE i
        after == Skip(s, first, Digits)
    IN  IF after = first \/ (s[first] = "0" /\ after > first + 1)
        THEN ParseFailed
        ELSE Parsed(JNumber(SubSeq(s, i, after - 1)), after)

\* obj[key] = value: a repeated key keeps its place and takes the new value
PutMember(members, k, v) ==
    IF \E n \in 1..Len(members) : members[n].k = k
    THEN [n \in 1..Len(members) |->
             IF members[n].k = k THEN Member(k, v) ELSE members[n]]
    ELSE Append(members, Member(k, v))

RECURSIVE ParseValue(_, _)
RECURSIVE ParseMembers(_, _, _)
RECURSIVE ParseElements(_, _, _)
ParseValue(s, i) ==
    LET j == Skip(s, i, Whitespace)
    IN  IF j > Len(s) THEN ParseFailed
        ELSE IF s[j] = "{" THEN
            (IF Skip(s, j + 1, Whitespace) <= Len(s) /\ s[Skip(s, j + 1, Whitespace)] = "}"
             THEN Parsed(JObject(<< >>), Skip(s, j + 1, Whitespace) + 1)
             ELSE ParseMembers(s, j + 1, << >>))
        ELSE IF s[j] = "[" THEN
            (IF Skip(s, j + 1, Whitespace) <= Len(s) /\ s[Skip(s, j + 1, Whitespace)] = "]"
             THEN Parsed(JArray(<< >>), Skip(s, j + 1, Whitespace) + 1)
             ELSE ParseElements(s, j + 1, << >>))
        ELSE IF s[j] = "\"" THEN ParseString(s, j)
        ELSE IF s[j] \in Digits \cup {"-"} THEN ParseNumber(s, j)
        ELSE IF At(s, j, <<"t", "r", "u", "e">>) THEN Parsed(JTrue, j + 4)
        ELSE IF At(s, j, <<"f", "a", "l", "s", "e">>) THEN Parsed(JFalse, j + 5)
        ELSE IF At(s, j, <<"n", "u", "l", "l">>) THEN Parsed(JNull, j + 4)
        ELSE ParseFailed

\* the members of an object from position i on, after a brace or a comma
ParseMembers(s, i, acc) ==
    LET k == Skip(s, i, Whitespace)
        key == ParseString(s, k)
        colon == Skip(s, key.next, Whitespace)
        val == ParseValue(s, colon + 1)
        sep == Skip(s, val.next, Whitespace)
        members == PutMember(acc, key.val.v, val.val)
    IN  IF k > Len(s) \/ s[k] # "\"" THEN ParseFailed
        ELSE IF ~key.ok THEN ParseFailed
        ELSE IF colon > Len(s) \/ s[colon] # ":" THEN ParseFailed
        ELSE IF ~val.ok THEN ParseFailed
        ELSE IF sep > Len(s) THEN ParseFailed
        ELSE IF s[sep] = "}" THEN Parsed(JObject(members), sep + 1)
        ELSE IF s[sep] = "," THEN ParseMembers(s, sep + 1, members)
        ELSE ParseFailed

\* the elements of an array from position i on, after a bracket or a comma
ParseElements(s, i, acc) ==
    LET val == ParseValue(s, i)
        sep == Skip(s, val.next, Whitespace)
        elements == Append(acc, val.val)
    IN  IF ~val.ok THEN ParseFailed
        ELSE IF sep > Len(s) THEN ParseFailed
        ELSE IF s[sep] = "]" THEN Parsed(JArray(elements), sep + 1)
        ELSE IF s[sep] = "," THEN ParseElements(s, sep + 1, elements)
        ELSE ParseFailed

JsonParse(s) ==
    LET r == ParseValue(s, 1)
    IN  IF r.ok /\ Skip(s, r.next, Whitespace) = Len(s) + 1
        THEN [ok |-> TRUE, val |-> r.val]
        ELSE [ok |-> FALSE, val |-> JUndefined]

\* the code block rule: the parsed content of the fenced block, if any
FromCodeBlock(inputStr) ==
    LET m == CodeBlockMatch(inputStr)
    IN  IF Includes(inputStr, Fence) /\ m.matched /\ m.group # << >>
        THEN JsonParse(Trim(m.group))
        ELSE [ok |-> FALSE, val |-> JUndefined]

\* the JSON-like rule: the repaired text parsed
FromJsonLike(inputStr) ==
    IF Head(inputStr) = "{" /\ inputStr[Len(inputStr)] = "}"
    THEN JsonParse(FixedJson(inputStr))
    ELSE [ok |-> FALSE, val |-> JUndefined]

Normalized(value) == [status |-> "returned", value |-> value]

\* JSON.stringify(input) in the first logging statement throws
NormalizeThrew == [status |-> "threw", value |-> JUndefined]

NormalizeString(inputStr) ==
    IF inputStr = << >> THEN Normalized(JObject(<< >>))
    ELSE IF FromCodeBlock(inputStr).ok THEN Normalized(FromCodeBlock(inputStr).val)
    ELSE IF FromJsonLike(inputStr).ok THEN Normalized(FromJsonLike(inputStr).val)
    ELSE IF ~Includes(inputStr, <<":">>) /\ ~Includes(inputStr, <<"{">>)
    THEN Normalized(JObject(<<Member(<<"i", "n", "p", "u", "t">>, JString(inputStr))>>))
    ELSE Normalized(JObject(<< >>))

NormalizeInput(input) ==
    IF input.t = "bigint" THEN NormalizeThrew
    ELSE IF input.t \in {"null", "undefined"} THEN Normalized(JObject(<< >>))
    ELSE IF input.t = "object" /\ input.v # << >> THEN Normalized(input)
    ELSE IF input.t = "string" THEN NormalizeString(Trim(input.v))
    ELSE IF input.t = "array"
    THEN Normalized(JObject(<<Member(<<"i", "n", "p", "u", "t", "s">>, input)>>))
    ELSE IF input.t \in {"number", "boolean"}
    THEN Normalized(JObject(<<Member(<<"v", "a", "l", "u", "e">>, input)>>))
    ELSE Normalized(JObject(<< >>))

\* the characters of the generated input texts
Alphabet == {"{", "}", ":", ",", "\"", "'", "a", "5", " ", Backtick}

ShortTexts == UNION {[1..n -> Alphabet] : n \in 0..MaxInputLen}

\* longer input texts
CuratedTexts ==
    {
      \* an object in valid JSON
      <<"{", "\"", "a", "\"", ":", " ", "5", "}">>,
      \* an object with a bare key
      <<"{", "a", ":", " ", "5", "}">>,
      \* a bare key and a single-quoted value
      <<"{", "a", ":", " ", "'", "x", "'", "}">>,
      \* two bare keys, one single-quoted value
      <<"{", "a", ":", "1", ",", "b", ":", "'", "y", "'", "}">>,
      \* valid JSON whose string value holds a comma, a word and a colon
      <<"{", "\"", "q", "\"", ":", " ", "\"", "a", ",", "b", ":", "c", "\"",
        "}">>,
      \* valid JSON whose string value holds a colon and a single-quoted word
      <<"{", "\"", "q", "\"", ":", " ", "\"", "i", "t", ":", " ", "'", "x",
        "'", "\"", "}">>,
      \* nested valid JSON
      <<"{", "\"", "a", "\"", ":", " ", "[", "1", ",", " ", "{", "\"", "b",
        "\"", ":", " ", "n", "u", "l", "l", "}", "]", ",", " ", "\"", "c",
        "\"", ":", " ", "t", "r", "u", "e", "}">>,
      \* a single-quoted key
      <<"{", "'", "a", "'", ":", " ", "1", "}">>,
      \* valid JSON with a repeated key
      <<"{", "\"", "a", "\"", ":", " ", "1", ",", " ", "\"", "a", "\"", ":",
        " ", "2", "}">>,
      \* a fenced block tagged json holding an object
      <<Backtick, Backtick, Backtick, "j", "s", "o", "n", "\n", "{", "\"", "a",
        "\"", ":", " ", "5", "}", "\n", Backtick, Backtick, Backtick>>,
      \* a fenced block holding an array
      <<Backtick, Backtick, Backtick, "\n", "[", "1", ",", "2", "]", "\n",
        Backtick, Backtick, Backtick>>,
      \* a fenced block holding a number
      <<Backtick, Backtick, Backtick, "5", Backtick, Backtick, Backtick>>,
      \* a fenced block holding null
      <<Backtick, Backtick, Backtick, "n", "u", "l", "l", Backtick, Backtick,
        Backtick>>,
      \* a fenced block holding a string
      <<Backtick, Backtick, Backtick, "j", "s", "o", "n", " ", "\"", "a", "\"",
        " ", Backtick, Backtick, Backtick>>,
      \* a fenced block holding an object with a bare key, inside prose
      <<"s", "e", "e", " ", Backtick, Backtick, Backtick, "{", "a", ":", " ",
        "5", "}", Backtick, Backtick, Backtick, " ", "o", "k">>,
      \* braces around a fenced number
      <<"{", "\"", "a", "\"", ":", " ", Backtick, Backtick, Backtick, "5",
        Backtick, Backtick, Backtick, " ", "}">>,
      \* an empty fenced block
      <<Backtick, Backtick, Backtick, "j", "s", "o", "n", Backtick, Backtick,
        Backtick>>,
      \* an opening fence without a closing one
      <<Backtick, Backtick, Backtick, "j", "s", "o", "n", "\n", "{", "\"", "a",
        "\"", ":", " ", "5", "}">>,
      \* plain words
      <<"h", "e", "l", "l", "o", " ", "w", "o", "r", "l", "d">>,
      \* a number between spaces
      <<" ", " ", "5", " ", " ">>,
      \* words around a colon
      <<"a", ":", " ", "b">>,
      \* the word true
      <<"t", "r", "u", "e">>,
      \* white space only
      <<" ", "\n", " ">>
    }

NonStringInputs ==
    {JNull, JUndefined, JObject(<< >>),
     JObject(<<Member(<<"a">>, JNumber(<<"5">>)), Member(<<"b">>, JNumber(<<"3">>))>>),
     JArray(<< >>), JArray(<<JString(<<"a">>), JString(<<"b">>)>>),
     JNumber(<<"5">>), JTrue, JFalse, JBigInt}

RawInputs ==
    NonStringInputs \cup {JString(s) : s \in ShortTexts \cup CuratedTexts}

\* the call of _normalizeInput on the input received
NormalizeCall ==
    /\ inputCall.pc = "received"
    /\ inputCall' = [inputCall EXCEPT !.pc = "done",
                                      !.outcome = NormalizeInput(inputCall.input)]
    /\ UNCHANGED <<registryVars, toolCall, timedCall, schemaCall, lateVars>>

InitInput ==
    /\ rawInput = [defined |-> FALSE, entries |-> << >>]
    /\ connections = ProcessConnections(rawInput)
    /\ clients = EmptyMap
    /\ serverNameToTools = EmptyMap
    /\ cleanupFunctions = << >>
    /\ sessions = << >>
    /\ initCall = IdleInit
    /\ closeCall = IdleClose
    /\ result = NoResult
    /\ opened = {}
    /\ convenienceNames = {}
    /\ toolCall = IdleTool
    /\ timedCall = IdleTimed
    /\ inputCall \in {[IdleInput EXCEPT !.pc = "received", !.input = input] :
                        input \in RawInputs}
    /\ schemaCall = IdleSchema
    /\ loadCall = IdleLoad
    /\ promptCall = IdlePrompt
    /\ flights = NoFlights
    /\ closers = NoClosers

NextInput == NormalizeCall

SpecInput == InitInput /\ [][NextInput]_vars

----------------------------------------------------------------------------
(* Schema normalization: _ensureValidToolSchema and fixArrayProperties *)

\* A schema node.  type is "none" when the key is absent; items is empty
\* when absent and holds the item schema otherwise; properties and
\* patternProperties are lists of [key, schema] in key order; name and
\* parent are the context keys that fixArrayProperties writes, "" when
\* absent.  parent holds parent.property: parent.object is always the
\* enclosing node, that is a reference back up the tree.
EmptySchema ==
    [type |-> "none", items |-> << >>,
     hasRequired |-> FALSE, required |-> << >>,
     hasProperties |-> FALSE, properties |-> << >>,
     patternProperties |-> << >>,
     oneOf |-> << >>, anyOf |-> << >>, allOf |-> << >>,
     name |-> "", parent |-> ""]

\* the schema value null
NullSchema == [EmptySchema EXCEPT !.type = "null value"]

Typed(type) == [EmptySchema EXCEPT !.type = type]

Prop(key, schema) == [key |-> key, schema |-> schema]

Properties(props) ==
    [EmptySchema EXCEPT !.type = "object", !.hasProperties = TRUE, !.properties = props]

\* { type: 'string' }
StringItems == Typed("string")

\* { type: 'object', properties: { type: {type: 'string'}, selector: {type: 'string'} } }
ActionsItems ==
    Properties(<<Prop("type", Typed("string")), Prop("selector", Typed("string"))>>)

ItemsForAlwaysString(obj) == StringItems

\* the items given to an array that lacks them
ItemsFor(obj) ==
    IF obj.name = "actions" \/ obj.parent = "actions" THEN ActionsItems
    ELSE IF obj.name = "formats" \/ obj.parent = "formats" THEN StringItems
    ELSE StringItems

RECURSIVE FixArrayProperties(_)
FixArrayProperties(obj) ==
    LET items == IF obj.type = "array" /\ obj.items = << >>
                 THEN <<ItemsFor(obj)>>
                 ELSE obj.items
        Fixed(list, parentOf(_)) ==
            [i \in 1..Len(list) |->
                FixArrayProperties([list[i] EXCEPT !.parent = parentOf(i)])]
        FixedKeyed(list, parentOf(_), named) ==
            [i \in 1..Len(list) |->
                Prop(list[i].key,
                     FixArrayProperties(
                         [list[i].schema EXCEPT
                             !.parent = parentOf(i),
                             !.name = IF named THEN list[i].key ELSE @]))]
        PropertyKey(i) == obj.properties[i].key
        ItemsKey(i) == "items"
        PatternKey(i) == "patternProperties[" \o obj.patternProperties[i].key \o "]"
        OneOfKey(i) == "oneOf[" \o ToString(i - 1) \o "]"
        AnyOfKey(i) == "anyOf[" \o ToString(i - 1) \o "]"
        AllOfKey(i) == "allOf[" \o ToString(i - 1) \o "]"
    IN  [obj EXCEPT
            !.properties = FixedKeyed(obj.properties, PropertyKey, TRUE),
            !.items = Fixed(items, ItemsKey),
            !.patternProperties = FixedKeyed(obj.patternProperties, PatternKey, FALSE),
            !.oneOf = Fixed(obj.oneOf, OneOfKey),
            !.anyOf = Fixed(obj.anyOf, AnyOfKey),
            !.allOf = Fixed(obj.allOf, AllOfKey)]

\* some node below the schema carries a parent reference: the structure is
\* circular and JSON.stringify throws
RECURSIVE Circular(_)
Circular(schema) ==
    LET Below(list) == \E i \in 1..Len(list) : list[i].parent # "" \/ Circular(list[i])
        BelowKeyed(list) ==
            \E i \in 1..Len(list) : list[i].schema.parent # "" \/ Circular(list[i].schema)
    IN  \/ Below(schema.items)
        \/ BelowKeyed(schema.properties)
        \/ BelowKeyed(schema.patternProperties)
        \/ Below(schema.oneOf)
        \/ Below(schema.anyOf)
        \/ Below(schema.allOf)

RootDefaultsRequiredOnly(schema) ==
    [schema EXCEPT !.hasRequired = TRUE]

\* validatedSchema.required = [] and validatedSchema.properties = {} if missing
RootDefaults(schema) ==
    [schema EXCEPT !.hasRequired = TRUE, !.hasProperties = TRUE]

OnCopyFailureNull(schema) == NullSchema

\* the outer catch returns the schema it was given
OnCopyFailure(schema) == schema

EnsureValidToolSchema(schema) ==
    IF schema = NullSchema THEN schema
    ELSE IF Circular(schema) THEN OnCopyFailure(schema)
    ELSE IF schema.type = "object" THEN FixArrayProperties(RootDefaults(schema))
    ELSE IF schema.type = "array" /\ schema.items = << >>
    THEN [schema EXCEPT !.items = <<StringItems>>]
    ELSE schema

\* the schemas given to the normalizer
PropertyNames == {"actions", "formats", "tags"}

SchemaTypes == {"object", "array", "string", "none"}

\* the schemas that hold the schema s in one of the places a schema can sit
Around(s) ==
    {Properties(<<Prop(key, s)>>) : key \in PropertyNames}
    \cup {[Properties(<<Prop("tags", s)>>) EXCEPT !.type = "none"],
          [Properties(<<Prop("tags", s)>>) EXCEPT
              !.hasRequired = TRUE, !.required = <<"tags">>],
          [Typed("array") EXCEPT !.items = <<s>>],
          [Typed("object") EXCEPT !.patternProperties = <<Prop("^x", s)>>],
          [Typed("object") EXCEPT !.oneOf = <<s>>],
          [Typed("none") EXCEPT !.oneOf = <<s>>],
          [Typed("object") EXCEPT !.anyOf = <<s, Typed("string")>>],
          [Typed("none") EXCEPT !.allOf = <<Typed("string"), s>>]}

RECURSIVE SchemasOfDepth(_)
SchemasOfDepth(d) ==
    IF d = 0
    THEN {Typed(type) : type \in SchemaTypes}
    ELSE SchemasOfDepth(d - 1) \cup UNION {Around(s) : s \in SchemasOfDepth(d - 1)}

\* an object with three array properties and a required list
ThreeArrays ==
    [Properties(<<Prop("actions", Typed("array")), Prop("formats", Typed("array")),
                  Prop("tags", Typed("array"))>>)
        EXCEPT !.hasRequired = TRUE, !.required = <<"actions">>]

Schemas == SchemasOfDepth(MaxDepth) \cup {ThreeArrays, NullSchema}

\* _ensureValidToolSchema(schema) for the schema as the server sent it
EnsureValid ==
    /\ schemaCall.pc = "received"
    /\ schemaCall' = [schemaCall EXCEPT !.pc = "done",
                                        !.output = EnsureValidToolSchema(schemaCall.input)]
    /\ UNCHANGED <<registryVars, toolCall, timedCall, inputCall, lateVars>>

\* _ensureValidToolSchema(schema) for the schema the last call returned
EnsureValidAgain ==
    /\ schemaCall.pc \in {"done", "again"}
    /\ schemaCall' = [pc |-> "again", input |-> schemaCall.output,
                      output |-> EnsureValidToolSchema(schemaCall.output)]
    /\ UNCHANGED <<registryVars, toolCall, timedCall, inputCall, lateVars>>

InitSchema ==
    /\ rawInput = [defined |-> FALSE, entries |-> << >>]
    /\ connections = ProcessConnections(rawInput)
    /\ clients = EmptyMap
    /\ serverNameToTools = EmptyMap
    /\ cleanupFunctions = << >>
    /\ sessions = << >>
    /\ initCall = IdleInit
    /\ closeCall = IdleClose
    /\ result = NoResult
    /\ opened = {}
    /\ convenienceNames = {}
    /\ toolCall = IdleTool
    /\ timedCall = IdleTimed
    /\ inputCall = IdleInput
    /\ schemaCall \in {[IdleSchema EXCEPT !.pc = "received", !.input = schema] :
                         schema \in Schemas}
    /\ loadCall = IdleLoad
    /\ promptCall = IdlePrompt
    /\ flights = NoFlights
    /\ closers = NoClosers

NextSchema ==
    \/ EnsureValid
    \/ EnsureValidAgain

SpecSchema == InitSchema /\ [][NextSchema]_vars

----------------------------------------------------------------------------
(* Adapter construction: convertMcpToolToLangchainTool and loadMcpTools *)

MaxCatalog == 2

\* a schema value that is not an object, such as a string
NotAnObject == [EmptySchema EXCEPT !.type = "string value"]

\* the inputSchema values of the catalog entries
CatalogSchemas == {NullSchema, NotAnObject, Typed("object"), Typed("string")}

\* JSONSchemaToZod.convert is a library call: it returns a ZodObject,
\* returns a validator of another type, or throws
ConverterOutcomes == {"zodObject", "otherType", "throws"}

ZodSchemaAlwaysConverted(validToolSchema, converter) ==
    IF converter = "otherType" THEN "wrapped" ELSE "converted"

\* the parameter schema of the adapter: "converted" is the converter's
\* ZodObject, "wrapped" is z.object({ input: convertedSchema }) and "empty"
\* is z.object({})
ZodSchema(validToolSchema, converter) ==
    IF validToolSchema = NullSchema THEN "empty"
    ELSE CASE converter = "zodObject" -> "converted"
           [] converter = "otherType" -> "wrapped"
           [] converter = "throws" -> "empty"

ConvertMcpToolToLangchainTool(toolName, toolSchema, converter) ==
    [name |-> toolName,
     schema |-> ZodSchema(EnsureValidToolSchema(toolSchema), converter)]

\* One entry of the catalog.  name is "" when the entry has no name;
\* construct tells whether new MCPToolAdapter() returns or throws.  The
\* fields that the code does not read on the path an entry takes have one
\* value: the schema of an entry without a name, the converter's outcome
\* for a missing schema, and both for an adapter that cannot be constructed.
CatalogEntries ==
    {info \in [name : {"", "add", "multiply"}, inputSchema : CatalogSchemas,
               converter : ConverterOutcomes, construct : {"ok", "throws"}] :
        /\ info.name = "" => info.inputSchema = NullSchema /\ info.construct = "ok"
        /\ info.inputSchema = NullSchema => info.converter = "zodObject"
        /\ info.construct = "throws" =>
              info.inputSchema = Typed("object") /\ info.converter = "zodObject"}

RECURSIVE CatalogsOfLength(_)
CatalogsOfLength(n) ==
    IF n = 0 THEN {<< >>}
    ELSE {Append(infos, info) : infos \in CatalogsOfLength(n - 1), info \in CatalogEntries}

Catalogs == UNION {CatalogsOfLength(n) : n \in 0..MaxCatalog}

\* what client.listTools() answers in a loadMcpTools call
CatalogResponses ==
    {[ok |-> FALSE, tools |-> << >>]} \cup {[ok |-> TRUE, tools |-> infos] : infos \in Catalogs}

RECURSIVE ConvertEntries(_)

OnConversionFailureStop(infos) == << >>

\* the catch inside the loop counts the error and the loop goes on
OnConversionFailure(infos) == ConvertEntries(Tail(infos))

\* the loop over toolsInfo
ConvertEntries(infos) ==
    IF infos = << >> THEN << >>
    ELSE LET toolInfo == Head(infos)
         IN  IF toolInfo.name = "" THEN ConvertEntries(Tail(infos))
             ELSE IF toolInfo.construct = "throws" THEN OnConversionFailure(infos)
             ELSE <<ConvertMcpToolToLangchainTool(toolInfo.name, toolInfo.inputSchema,
                                                  toolInfo.converter)>>
                  \o ConvertEntries(Tail(infos))

\* loadMcpTools(client): one await of listTools, then the loop
LoadTools ==
    /\ loadCall.pc = "received"
    /\ loadCall' = [loadCall EXCEPT
                       !.pc = "done",
                       !.tools = IF loadCall.response.ok
                                 THEN ConvertEntries(loadCall.response.tools)
                                 ELSE << >>]
    /\ UNCHANGED <<registryVars, toolCall, timedCall, inputCall, schemaCall,
                   promptCall, flights, closers>>

InitLoad ==
    /\ rawInput = [defined |-> FALSE, entries |-> << >>]
    /\ connections = ProcessConnections(rawInput)
    /\ clients = EmptyMap
    /\ serverNameToTools = EmptyMap
    /\ cleanupFunctions = << >>
    /\ sessions = << >>
    /\ initCall = IdleInit
    /\ closeCall = IdleClose
    /\ result = NoResult
    /\ opened = {}
    /\ convenienceNames = {}
    /\ toolCall = IdleTool
    /\ timedCall = IdleTimed
    /\ inputCall = IdleInput
    /\ schemaCall = IdleSchema
    /\ loadCall \in {[IdleLoad EXCEPT !.pc = "received", !.response = response] :
                        response \in CatalogResponses}
    /\ promptCall = IdlePrompt
    /\ flights = NoFlights
    /\ closers = NoClosers

NextLoad == LoadTools

SpecLoad == InitLoad /\ [][NextLoad]_vars

----------------------------------------------------------------------------
(* Prompt template: MCPPromptTemplate.formatMessages *)

\* setTimeout(..., 3000) around getPrompt
PROMPT_TIMEOUT == 3000

\* promptDefinition.name || promptDefinition.id of the initialized template
PromptNames == {"code-review", "explain-code", "test-prompt"}

\* the values given to formatMessages: "plain" values can be serialized by
\* JSON.stringify, "unserializable" ones (a circular reference, a BigInt)
\* make it throw
PromptValues == {"plain", "unserializable"}

\* what the stored client offers as getPrompt: no such function, a function
\* that throws when called, or a function that returns a promise
GetPromptKinds == {"absent", "throws", "promise"}

\* how the promise returned by getPrompt settles, when it does
GetPromptSettlements == {"messages", "noMessages", "rejected"}

Messages(source, roles) ==
    [status |-> "resolved", source |-> source, roles |-> roles, message |-> ""]

FormatRejected(message) ==
    [status |-> "rejected", source |-> "none", roles |-> << >>, message |-> message]

\* the manually constructed response
ManualPrompt(promptName, values) ==
    CASE promptName = "code-review" -> Messages("code-review", <<"system", "user">>)
      [] promptName = "explain-code" -> Messages("explain-code", <<"system", "user">>)
      [] OTHER ->
           IF values = "unserializable"
           THEN FormatRejected("Failed to format messages: TypeError")
           ELSE Messages("generic", <<"system", "user">>)

\* the inner catch, and the path after a result without a messages array
FallBack(call, cause) ==
    [call EXCEPT !.pc = "done", !.cause = cause,
                 !.outcome = ManualPrompt(call.promptName, call.values)]

\* formatMessages(values) on an initialized template, up to its first await
FormatMessages ==
    /\ promptCall.pc \in {"idle", "done"}
    /\ \E promptName \in PromptNames, values \in PromptValues, kind \in GetPromptKinds :
          LET call == [IdlePrompt EXCEPT !.promptName = promptName, !.values = values,
                                         !.getPrompt = kind]
          IN  promptCall' =
                  CASE kind = "absent" -> FallBack(call, "noGetPrompt")
                    [] kind = "throws" -> FallBack(call, "threw")
                    [] kind = "promise" -> [call EXCEPT !.pc = "racing"]
    /\ UNCHANGED <<registryVars, toolCall, timedCall, inputCall, schemaCall,
                   loadCall, flights, closers>>

\* time passes while a timer is pending
PromptTick ==
    /\ promptCall.pc \in {"racing", "done"}
    /\ promptCall.getPrompt = "promise"
    /\ ~promptCall.timerFired
    /\ promptCall.elapsed < PROMPT_TIMEOUT
    /\ promptCall.elapsed + TickMs <= MaxTicks * TickMs
    /\ promptCall' = [promptCall EXCEPT !.elapsed = @ + TickMs]
    /\ UNCHANGED <<registryVars, toolCall, timedCall, inputCall, schemaCall,
                   loadCall, flights, closers>>

\* the timer callback rejects the timer promise; the race is settled by it
\* only if it is still open
PromptTimerFires ==
    /\ promptCall.pc \in {"racing", "done"}
    /\ promptCall.getPrompt = "promise"
    /\ ~promptCall.timerFired
    /\ promptCall.elapsed >= PROMPT_TIMEOUT
    /\ promptCall' =
          IF promptCall.pc = "racing"
          THEN [FallBack(promptCall, "timeout") EXCEPT !.timerFired = TRUE]
          ELSE [promptCall EXCEPT !.timerFired = TRUE]
    /\ UNCHANGED <<registryVars, toolCall, timedCall, inputCall, schemaCall,
                   loadCall, flights, closers>>

\* the promise returned by getPrompt settles; the race is settled by it only
\* if it is still open
GetPromptSettles ==
    /\ promptCall.pc \in {"racing", "done"}
    /\ promptCall.getPrompt = "promise"
    /\ promptCall.request = "pending"
    /\ \E how \in GetPromptSettlements :
          promptCall' =
              IF promptCall.pc = "racing"
              THEN CASE how = "messages" ->
                          [promptCall EXCEPT !.pc = "done", !.request = how,
                                             !.cause = "none",
                                             !.outcome = Messages("remote", <<"user">>)]
                     [] how = "noMessages" ->
                          [FallBack(promptCall, "noMessages") EXCEPT !.request = how]
                     [] how = "rejected" ->
                          [FallBack(promptCall, "threw") EXCEPT !.request = how]
              ELSE [promptCall EXCEPT !.request = how]
    /\ UNCHANGED <<registryVars, toolCall, timedCall, inputCall, schemaCall,
                   loadCall, flights, closers>>

InitPrompt == InitTool

NextPrompt ==
    \/ FormatMessages
    \/ PromptTick
    \/ PromptTimerFires
    \/ GetPromptSettles

SpecPrompt == InitPrompt /\ [][NextPrompt]_vars

----------------------------------------------------------------------------
(* Tool adapter: several _call invocations in flight *)

MaxFlights == 2

\* what the server answers to one request, or how the request fails
FlightResponses ==
    {r \in Responses :
        \/ ~r.defined
        \/ /\ r.isError # "absent"
           /\ r.content.k = "list"
           /\ Len(r.content.items) = 1
           /\ r.content.items[1].type = "text"
           /\ r.content.items[1].hasText}

NoAnswer == [kind |-> "none", resp |-> [defined |-> FALSE, isError |-> "absent",
                                        content |-> Undefined],
             err |-> [isError |-> FALSE, text |-> ""]]

FlightAnswers ==
    {[NoAnswer EXCEPT !.kind = "response", !.resp = r] : r \in FlightResponses}
    \cup {[NoAnswer EXCEPT !.kind = "error", !.err = e] : e \in CallToolErrors}

\* _call of one invocation from the moment its own await client.callTool()
\* settles: result and error are locals of that invocation
OutcomeOf(call, answer) ==
    IF answer.kind = "response"
    THEN CallResolved(answer.resp)
    ELSE CallRejected(call.name, answer.err)

\* the invocations that still wait for their answer
Pending(calls) == {i \in DOMAIN calls : calls[i].pc = "calling"}

SettledOldest(fl, i, answer) ==
    LET j == CHOOSE k \in Pending(fl.calls) : \A l \in Pending(fl.calls) : k <= l
    IN  [calls |-> [fl.calls EXCEPT ![i].answer = answer, ![j].pc = "done",
                                    ![j].outcome = OutcomeOf(fl.calls[j], answer)],
         order |-> Append(fl.order, j)]

\* the answer to request i resumes invocation i
Settled(fl, i, answer) ==
    [calls |-> [fl.calls EXCEPT ![i].answer = answer, ![i].pc = "done",
                                ![i].outcome = OutcomeOf(fl.calls[i], answer)],
     order |-> Append(fl.order, i)]

\* one more invoke() while others are in flight: nothing makes it wait
StartFlight ==
    /\ Len(flights.calls) < MaxFlights
    /\ \E server \in ServerNames, name \in ToolNames :
          flights' = [flights EXCEPT !.calls = Append(@,
                         [server |-> server, name |-> name, pc |-> "calling",
                          answer |-> NoAnswer, outcome |-> NoOutcome])]
    /\ UNCHANGED <<registryVars, toolCall, timedCall, inputCall, schemaCall,
                   loadCall, promptCall, closers>>

\* the requests are answered in any order
FlightSettles ==
    /\ \E i \in Pending(flights.calls), answer \in FlightAnswers :
          flights' = Settled(flights, i, answer)
    /\ UNCHANGED <<registryVars, toolCall, timedCall, inputCall, schemaCall,
                   loadCall, promptCall, closers>>

InitFlights == InitTool

NextFlights ==
    \/ StartFlight
    \/ FlightSettles

SpecFlights == InitFlights /\ [][NextFlights]_vars

----------------------------------------------------------------------------
(* Specification of the registry *)

Init ==
    /\ rawInput \in RawConfigs
    /\ connections = ProcessConnections(rawInput)
    /\ clients = EmptyMap
    /\ serverNameToTools = EmptyMap
    /\ cleanupFunctions = << >>
    /\ sessions = << >>
    /\ initCall = IdleInit
    /\ closeCall = IdleClose
    /\ result = NoResult
    /\ opened = {}
    /\ convenienceNames = {}
    /\ toolCall = IdleTool
    /\ timedCall = IdleTimed
    /\ inputCall = IdleInput
    /\ schemaCall = IdleSchema
    /\ loadCall = IdleLoad
    /\ promptCall = IdlePrompt
    /\ flights = NoFlights
    /\ closers = NoClosers

Next ==
    \/ InitializeConnections
    \/ ConnectToServer
    \/ ConnectToServerViaStdio
    \/ ConnectToServerViaSSE
    \/ ConnectResolve
    \/ CatalogResolve
    \/ Close
    \/ CleanupResolve

Spec == Init /\ [][Next]_vars

TypeOK ==
    /\ DOMAIN clients \subseteq ServerNames
    /\ DOMAIN serverNameToTools \subseteq ServerNames
    /\ Len(sessions) <= MaxSessions

----------------------------------------------------------------------------
(* close() calls that overlap one another and initializeConnections() *)

MaxClosers == 2

\* One close() call.  The for loop iterates the array that was
\* this.cleanupFunctions when the loop started; bound tells whether that
\* array is still the one the field refers to, and array holds its elements
\* from the moment the field was assigned a new one.
NewCloser == [pc |-> "cleanup", idx |-> 1, bound |-> TRUE, array |-> << >>]

\* the array a close() call iterates, with everything pushed to it so far
ArrayOf(closer) == IF closer.bound THEN cleanupFunctions ELSE closer.array

\* this.cleanupFunctions = []: the calls still iterating the old array keep it
Unbound(cs) ==
    [k \in DOMAIN cs |->
        IF cs[k].bound /\ cs[k].pc = "cleanup"
        THEN [cs[k] EXCEPT !.bound = FALSE, !.array = cleanupFunctions]
        ELSE cs[k]]

\* the statements after the loop
FinishClose(cs) ==
    /\ closers' = Unbound(cs)
    /\ cleanupFunctions' = ClearedRegistry.cleanups
    /\ clients' = ClearedRegistry.clients
    /\ serverNameToTools' = ClearedRegistry.tools
    /\ UNCHANGED sessions

\* the loop invokes the cleanup at position idx and suspends on it
InvokeCleanup(cs, k) ==
    /\ closers' = cs
    /\ sessions' = [sessions EXCEPT ![ArrayOf(cs[k])[cs[k].idx]].cleanupCalls = @ + 1]
    /\ UNCHANGED <<clients, serverNameToTools, cleanupFunctions>>

\* close() is called while other registry calls may be suspended
StartClose ==
    /\ Len(closers) < MaxClosers
    /\ IF cleanupFunctions = << >>
       THEN FinishClose(Append(closers, [NewCloser EXCEPT !.pc = "done", !.bound = FALSE]))
       ELSE InvokeCleanup(Append(closers, NewCloser), Len(closers) + 1)
    /\ UNCHANGED <<rawInput, connections, initCall, closeCall, result, opened,
                   convenienceNames, toolCall, timedCall, inputCall, schemaCall,
                   loadCall, promptCall, flights>>

\* await cleanup() of one close() call settles, by returning or by throwing:
\* the loop goes on with the next element of its array, or ends
CloserResumes == \E k \in DOMAIN closers :
    /\ closers[k].pc = "cleanup"
    /\ IF closers[k].idx < Len(ArrayOf(closers[k]))
       THEN InvokeCleanup([closers EXCEPT ![k].idx = @ + 1], k)
       ELSE FinishClose([closers EXCEPT ![k].pc = "done", ![k].bound = FALSE,
                                        ![k].array = ArrayOf(closers[k])])
    /\ UNCHANGED <<rawInput, connections, initCall, closeCall, result, opened,
                   convenienceNames, toolCall, timedCall, inputCall, schemaCall,
                   loadCall, promptCall, flights>>

NextOverlap ==
    \/ InitializeConnections
    \/ ConnectResolve
    \/ CatalogResolve
    \/ StartClose
    \/ CloserResumes

SpecOverlap == Init /\ [][NextOverlap]_vars

----------------------------------------------------------------------------
(* Properties of the registry *)

InitOps == {"initializeConnections", "connectToServer",
            "connectToServerViaStdio", "connectToServerViaSSE"}

ConvenienceOps == InitOps \ {"initializeConnections"}

\* C1: when close() has finished it has not raised, and every cleanup action
\* that was stored when it started has been invoked exactly once, also when
\* some of the cleanup actions threw.
CloseInvokesEveryCleanupOnce ==
    result.op = "close" =>
        /\ result.status = "returned"
        /\ \A i \in DOMAIN result.pre.cleanups :
              sessions[result.pre.cleanups[i]].cleanupCalls = 1

\* C1 witness: a close() over two cleanups whose first one threw
CloseAfterThrowingCleanup ==
    /\ result.op = "close"
    /\ Len(result.pre.cleanups) >= 2
    /\ result.pre.cleanups[1] \in result.threw

\* C2: after close() the registry is empty: no session can be looked up, no
\* tool entry and no cleanup action remains.
CloseEmptiesRegistry ==
    result.op = "close" =>
        /\ \A name \in DOMAIN result.pre.clients : name \notin DOMAIN clients
        /\ clients = EmptyMap
        /\ serverNameToTools = EmptyMap
        /\ cleanupFunctions = << >>

\* C2 witness: a finished close() of a registry that held sessions and tools
CloseOfConnectedRegistry ==
    /\ result.op = "close"
    /\ result.pre.clients # EmptyMap
    /\ \E name \in DOMAIN result.pre.tools : result.pre.tools[name] # << >>

\* C3: initializeConnections() never raises, it visits every configured
\* connection, and every connection whose connect and catalog load succeeded
\* has its session stored and its tools in the returned mapping, whatever
\* happened to the other connections.
ConnectAllFaultIsolated ==
    result.op \in InitOps =>
        /\ result.status = "returned"
        /\ Len(result.log) = Len(connections.entries)
        /\ \A i \in DOMAIN result.log :
              LET l == result.log[i] IN
              /\ l.name = connections.entries[i].name
              /\ (l.connect = "ok" /\ l.catalog = "ok") =>
                    /\ l.name \in DOMAIN clients
                    /\ clients[l.name] = l.sid
                    /\ l.name \in DOMAIN result.ret
                    /\ result.ret[l.name] = l.tools

\* C3 witness: the first connection failed its handshake, the second one
\* went through and delivered tools
ConnectedAfterFailedConnection ==
    /\ result.op = "initializeConnections"
    /\ Len(result.log) = 2
    /\ result.log[1].connect = "handshakeFail"
    /\ result.log[2].connect = "ok"
    /\ result.log[2].catalog = "ok"
    /\ result.log[2].tools # << >>

\* A raw config that lacks a field its transport kind requires
LacksRequiredField(config) ==
    /\ config.isObject
    /\ \/ config.transport = "sse" /\ ~config.url
       \/ config.transport = "programmatic" /\ ~config.server
       \/ config.transport \notin {"sse", "programmatic"} /\ (~config.command \/ ~config.args)

ConfiguredNames == { connections.entries[i].name : i \in DOMAIN connections.entries }

\* C4: a name whose constructor config lacks a required field is not
\* registered, no transport is ever opened for it, it has no session and no
\* tool entry, and no call raises (unless the name is later connected through
\* one of the connectToServer* methods).
IncompleteSpecOmitted ==
    /\ result.status # "raised"
    /\ \A i \in DOMAIN rawInput.entries :
          LET e == rawInput.entries[i] IN
          (LacksRequiredField(e.config) /\ e.name \notin convenienceNames) =>
              /\ e.name \notin ConfiguredNames
              /\ e.name \notin opened
              /\ e.name \notin DOMAIN clients
              /\ e.name \notin DOMAIN serverNameToTools

\* C4 witness: initializeConnections() finished on a configuration holding
\* an sse config without url next to a config that connected
IncompleteSpecNextToConnected ==
    /\ result.op = "initializeConnections"
    /\ convenienceNames = {}
    /\ clients # EmptyMap
    /\ \E i \in DOMAIN rawInput.entries :
          /\ rawInput.entries[i].config.transport = "sse"
          /\ LacksRequiredField(rawInput.entries[i].config)

\* C5 (as claimed): at most one live session per connection name
AtMostOneLiveSessionPerName ==
    \A name \in ServerNames : Cardinality(LiveSessions(name)) <= 1

\* What a registry without stored sessions holds after running the logged
\* connections
RECURSIVE FreshRegistry(_)
FreshRegistry(log) ==
    IF log = << >> THEN ClearedRegistry
    ELSE LET r == FreshRegistry(SubSeq(log, 1, Len(log) - 1))
             l == log[Len(log)]
         IN  IF l.connect # "ok" THEN r
             ELSE [clients |-> MapSet(r.clients, l.name, l.sid),
                   tools |-> MapSet(r.tools, l.name, l.tools),
                   cleanups |-> Append(r.cleanups, l.sid)]

Overlay(old, new) ==
    [x \in DOMAIN old \cup DOMAIN new |-> IF x \in DOMAIN new THEN new[x] ELSE old[x]]

\* C6 (as claimed): after a connectToServer* call the registry and the
\* returned mapping are those of a fresh registry built from the single spec
ConvenienceEqualsFreshRegistry ==
    result.op \in ConvenienceOps =>
        LET fresh == FreshRegistry(result.log) IN
        /\ clients = fresh.clients
        /\ serverNameToTools = fresh.tools
        /\ cleanupFunctions = fresh.cleanups
        /\ result.ret = fresh.tools

\* C6 (amended): a connectToServer* call replaces the configured connection
\* set by the single spec and connects only that one; what earlier calls
\* stored is kept, the outcome of the fresh single-spec registry is laid
\* over it, and the live tools map is returned.
ConvenienceReplacesConfigOnly ==
    result.op \in ConvenienceOps =>
        LET fresh == FreshRegistry(result.log) IN
        /\ Len(connections.entries) = 1
        /\ Len(result.log) = 1
        /\ result.log[1].name = connections.entries[1].name
        /\ clients = Overlay(result.pre.clients, fresh.clients)
        /\ serverNameToTools = Overlay(result.pre.tools, fresh.tools)
        /\ cleanupFunctions = result.pre.cleanups \o fresh.cleanups
        /\ result.ret = serverNameToTools
        /\ (result.pre = NoPre =>
               /\ clients = fresh.clients
               /\ serverNameToTools = fresh.tools
               /\ cleanupFunctions = fresh.cleanups)

\* C6 witness: a connectToServer* call that connected one name while another
\* name's session was stored
ConvenienceOnConnectedRegistry ==
    /\ result.op \in ConvenienceOps
    /\ result.log[1].connect = "ok"
    /\ \E name \in DOMAIN result.pre.clients :
          /\ name # result.log[1].name
          /\ name \in DOMAIN clients

----------------------------------------------------------------------------
(* Properties of the tool adapter *)

Done == toolCall.pc = "done" /\ toolCall.response.defined

ErrorFlagged == Done /\ toolCall.response.isError = "true"

NotErrorFlagged == Done /\ toolCall.response.isError # "true"

ResponseItems ==
    IF toolCall.response.content.k = "list" THEN toolCall.response.content.items ELSE << >>

TextPositions == { i \in DOMAIN ResponseItems : ResponseItems[i].type = "text" }

FirstText == CHOOSE i \in TextPositions : \A j \in TextPositions : i <= j

\* C7 (as claimed): an error-flagged response rejects, with the text of the
\* first text item as message when the content has a text item, with
\* "Tool execution failed" when it has none.
ErrorMessageIsFirstText ==
    ErrorFlagged =>
        /\ toolCall.outcome.status = "rejected"
        /\ IF TextPositions # {}
           THEN toolCall.outcome.message = ResponseItems[FirstText].text
           ELSE toolCall.outcome.message = "Tool execution failed"

\* C7 (amended): an error-flagged response always rejects; the message is
\* the text of the first text item when that text is present and not empty,
\* and "Tool execution failed" in every other case.
ErrorMessageIsFirstNonEmptyText ==
    ErrorFlagged =>
        /\ toolCall.outcome.status = "rejected"
        /\ IF /\ TextPositions # {}
              /\ ResponseItems[FirstText].hasText
              /\ ResponseItems[FirstText].text # ""
           THEN toolCall.outcome.message = ResponseItems[FirstText].text
           ELSE toolCall.outcome.message = "Tool execution failed"

\* C7 witness: an error response whose text item comes after an image
ErrorWithTextAfterImage ==
    /\ ErrorFlagged
    /\ Len(ResponseItems) = 2
    /\ ResponseItems[1].type = "image"
    /\ ResponseItems[2] = TextItem("boom")
    /\ toolCall.outcome.message = "boom"

\* C8: a non-error response whose content list holds exactly one text item
\* resolves to that item's text, whatever non-text items stand around it.
SingleTextReturnedVerbatim ==
    (/\ NotErrorFlagged
     /\ Cardinality(TextPositions) = 1
     /\ ResponseItems[FirstText].hasText) =>
        /\ toolCall.outcome.status = "resolved"
        /\ toolCall.outcome.value = Str(ResponseItems[FirstText].text)

\* C8 witness: the single text item follows an image
TextAfterImageReturned ==
    /\ NotErrorFlagged
    /\ ResponseItems = <<[type |-> "image", hasText |-> FALSE, text |-> ""], TextItem("8")>>
    /\ toolCall.outcome.value = Str("8")

\* C9 (as claimed): a non-error response with several items, of which more
\* than one or none is a text item, resolves to the content list itself.
MultipleItemsReturnedAsList ==
    (/\ NotErrorFlagged
     /\ Len(ResponseItems) > 1
     /\ Cardinality(TextPositions) # 1) =>
        /\ toolCall.outcome.status = "resolved"
        /\ toolCall.outcome.value = toolCall.response.content

\* C10 (as claimed): a non-error response whose content is a bare string or
\* an object resolves to that payload.
NonListPayloadUnchanged ==
    (/\ NotErrorFlagged
     /\ toolCall.response.content \in {Str("code result"), Obj}) =>
        /\ toolCall.outcome.status = "resolved"
        /\ toolCall.outcome.value = toolCall.response.content

\* C11: one invoke() puts at most one callTool request on the session: one
\* when the input reaches _call, none when an object input fails the schema,
\* and no outcome (success, error response, transport exception) adds a
\* second one.
AtMostOneCallRequest ==
    /\ toolCall.sent <= 1
    /\ toolCall.pc = "calling" => toolCall.sent = 1
    /\ toolCall.pc = "done" =>
          toolCall.sent = (IF toolCall.input = "invalidObject" THEN 0 ELSE 1)

\* C11 witness: an invoke() that ended with a transport exception after its
\* single request
OneRequestThenTransportError ==
    /\ toolCall.pc = "done"
    /\ toolCall.thrown.raised
    /\ toolCall.sent = 1

\* C12: an exception of client.callTool() reaches the caller as a
\* ToolException whose message names the tool and carries the cause's
\* message; it never becomes a success value.
TransportErrorWrapped ==
    (toolCall.pc = "done" /\ toolCall.thrown.raised) =>
        /\ toolCall.outcome.status = "rejected"
        /\ toolCall.outcome.error = "ToolException"
        /\ \E prefix \in {"Error calling tool ", "Unknown error calling tool "} :
              toolCall.outcome.message =
                  prefix \o toolCall.name \o ": " \o toolCall.thrown.text

\* C12 witness: callTool of the tool "search" rejected with an Error
SearchCallRejected ==
    /\ toolCall.pc = "done"
    /\ toolCall.name = "search"
    /\ toolCall.thrown.raised
    /\ toolCall.thrown.isError
    /\ toolCall.thrown.text = "Connection closed"
    /\ toolCall.outcome.message = "Error calling tool search: Connection closed"

\* C13 (as claimed): once the deadline has elapsed on a call whose response
\* has not arrived, the call is over and has rejected.
PendingCallTimesOut ==
    toolCall.elapsed =>
        /\ toolCall.pc = "done"
        /\ toolCall.outcome.status = "rejected"

----------------------------------------------------------------------------
(* Properties of the resource and prompt utilities *)

\* C14: the utilities race the request against a timer of options.timeout
\* milliseconds, 5000 when the option is absent.  A pending call never
\* outlasts the timeout; when the timer settles the race the call rejects
\* with "Timeout ... after <timeout>ms" inside its message; when the request
\* settles first, its response or error decides the outcome.
TimerRacesRequest ==
    LET timeout == IF timedCall.option = 0 THEN 5000 ELSE timedCall.option
        noun == CASE timedCall.op = "listResources" -> "listing resources"
                  [] timedCall.op = "readResourceContent" -> "reading resource"
                  [] timedCall.op = "listPrompts" -> "listing prompts"
                  [] OTHER -> ""
        cause == "Timeout " \o noun \o " after " \o ToString(timeout) \o "ms"
    IN  /\ timedCall.pc = "racing" => timedCall.elapsed <= timeout
        /\ timedCall.settledBy = "timer" =>
              /\ timedCall.pc = "done"
              /\ timedCall.elapsed >= timeout
              /\ timedCall.outcome.status = "rejected"
              /\ timedCall.outcome.cause = cause
              /\ timedCall.outcome.message = FailurePrefix(timedCall.op) \o cause
        /\ timedCall.settledBy = "request" =>
              /\ timedCall.pc = "done"
              /\ timedCall.elapsed <= timeout
              /\ timedCall.request \in {"valid", "invalid", "zodError"} =>
                    timedCall.outcome.status = "resolved"
              /\ timedCall.request = "valid" =>
                    timedCall.outcome.value = ResponseValue(timedCall.op)
              /\ timedCall.request = "error" =>
                    /\ timedCall.outcome.status = "rejected"
                    /\ timedCall.outcome.cause = RequestErrorText

\* C14 witness: listPrompts without a timeout option rejected by the timer
\* after 5000 ms
DefaultTimeoutFired ==
    /\ timedCall.pc = "done"
    /\ timedCall.op = "listPrompts"
    /\ timedCall.option = 0
    /\ timedCall.settledBy = "timer"
    /\ timedCall.elapsed = 5000
    /\ timedCall.outcome.message =
          "Failed to list prompts: Timeout listing prompts after 5000ms"

----------------------------------------------------------------------------
(* Properties of the input coercion *)

\* the repair as the rule states it: bare keys and single-quoted values get
\* double quotes, text inside double-quoted strings is left alone
RECURSIVE QuotedKeysAndValues(_, _)
QuotedKeysAndValues(s, i) ==
    IF i > Len(s)
    THEN << >>
    ELSE LET word == Skip(s, i + 1, Whitespace)
             after == Skip(s, word, WordChars)
             colon == Skip(s, after, Whitespace)
             closes == {j \in (word + 1)..Len(s) : s[j] = "'"}
             ends == {j \in (i + 1)..Len(s) : s[j] = "\""}
             end == IF ends = {} THEN Len(s) ELSE Least(ends)
         IN  IF s[i] = "\""
             THEN SubSeq(s, i, end) \o QuotedKeysAndValues(s, end + 1)
             ELSE IF /\ s[i] \in {"{", ","}
                     /\ after > word
                     /\ colon <= Len(s)
                     /\ s[colon] = ":"
             THEN SubSeq(s, i, word - 1) \o <<"\"">> \o SubSeq(s, word, after - 1)
                      \o <<"\"">> \o SubSeq(s, after, colon - 1)
                      \o QuotedKeysAndValues(s, colon)
             ELSE IF /\ s[i] = ":"
                     /\ word <= Len(s)
                     /\ s[word] = "'"
                     /\ closes # {}
             THEN <<":", " ", "\"">> \o SubSeq(s, word + 1, Least(closes) - 1)
                      \o <<"\"">> \o QuotedKeysAndValues(s, Least(closes) + 1)
             ELSE <<s[i]>> \o QuotedKeysAndValues(s, i + 1)

\* the rules for a string, in their order
CoercedString(text) ==
    LET s == Trim(text)
        fenced == CodeBlockMatch(s)
        fencedJson == JsonParse(fenced.group)
        braced == Head(s) = "{" /\ s[Len(s)] = "}"
        bracedJson == JsonParse(QuotedKeysAndValues(s, 1))
    IN  IF s = << >> THEN JObject(<< >>)
        ELSE IF fenced.matched /\ fencedJson.ok THEN fencedJson.val
        ELSE IF braced /\ bracedJson.ok THEN bracedJson.val
        ELSE IF ~Includes(s, <<":">>) /\ ~Includes(s, <<"{">>)
        THEN JObject(<<Member(<<"i", "n", "p", "u", "t">>, JString(s))>>)
        ELSE JObject(<< >>)

\* the rules for any input, in their order
Coerced(input) ==
    IF input.t = "object" /\ input.v # << >> THEN input
    ELSE IF input.t = "string" THEN CoercedString(input.v)
    ELSE IF input.t = "array"
    THEN JObject(<<Member(<<"i", "n", "p", "u", "t", "s">>, input)>>)
    ELSE IF input.t \in {"number", "boolean"}
    THEN JObject(<<Member(<<"v", "a", "l", "u", "e">>, input)>>)
    ELSE JObject(<< >>)

\* C15 (as claimed): _normalizeInput returns a non-empty mapping as it is and
\* otherwise the result of the first matching rule: blank string, fenced code
\* block parsed as JSON, braced text parsed as JSON after quoting bare keys
\* and single-quoted values, scalar string wrapped as input, array wrapped as
\* inputs, number or boolean wrapped as value, anything else the empty
\* mapping.
CoercionFollowsRuleOrder ==
    inputCall.pc = "done" =>
        /\ inputCall.outcome.status = "returned"
        /\ inputCall.outcome.value = Coerced(inputCall.input)

\* C16 (as claimed): _normalizeInput never raises and always returns a
\* non-array key/value object.
CoercionYieldsMapping ==
    inputCall.pc = "done" =>
        /\ inputCall.outcome.status = "returned"
        /\ inputCall.outcome.value.t = "object"

----------------------------------------------------------------------------
(* Properties of the schema normalization *)

\* the schemas directly below a schema
Subschemas(schema) ==
    schema.items
        \o [i \in 1..Len(schema.properties) |-> schema.properties[i].schema]
        \o [i \in 1..Len(schema.patternProperties) |-> schema.patternProperties[i].schema]
        \o schema.oneOf \o schema.anyOf \o schema.allOf

RECURSIVE AllArraysHaveItems(_)
AllArraysHaveItems(schema) ==
    /\ schema.type = "array" => schema.items # << >>
    /\ \A i \in 1..Len(Subschemas(schema)) : AllArraysHaveItems(Subschemas(schema)[i])

\* the schema without the context keys name and parent
RECURSIVE WithoutContext(_)
WithoutContext(schema) ==
    LET Plain(list) == [i \in 1..Len(list) |-> WithoutContext(list[i])]
        PlainKeyed(list) ==
            [i \in 1..Len(list) |-> Prop(list[i].key, WithoutContext(list[i].schema))]
    IN  [schema EXCEPT
            !.name = "", !.parent = "",
            !.items = Plain(schema.items),
            !.properties = PlainKeyed(schema.properties),
            !.patternProperties = PlainKeyed(schema.patternProperties),
            !.oneOf = Plain(schema.oneOf),
            !.anyOf = Plain(schema.anyOf),
            !.allOf = Plain(schema.allOf)]

Normalized1 == schemaCall.pc = "done" /\ schemaCall.input # NullSchema

\* C17: a schema whose root has type object comes out with properties and
\* required present: the given ones when it had them (the same property
\* keys and property types, the same required list), empty ones otherwise.
RootObjectHasPropertiesAndRequired ==
    (Normalized1 /\ schemaCall.input.type = "object") =>
        LET in == schemaCall.input
            out == schemaCall.output
        IN  /\ out.type = "object"
            /\ out.hasProperties
            /\ out.hasRequired
            /\ out.required = in.required
            /\ Len(out.properties) = Len(in.properties)
            /\ \A i \in 1..Len(in.properties) :
                  /\ out.properties[i].key = in.properties[i].key
                  /\ out.properties[i].schema.type = in.properties[i].schema.type

\* C17 witness: an object schema with a union and neither properties nor
\* required was normalized
BareRootObjectNormalized ==
    /\ Normalized1
    /\ schemaCall.input.type = "object"
    /\ schemaCall.input.oneOf # << >>
    /\ ~schemaCall.input.hasProperties
    /\ ~schemaCall.input.hasRequired
    /\ schemaCall.output.hasProperties
    /\ schemaCall.output.properties = << >>

\* C18 (as claimed): after normalization every array-typed node has items,
\* wherever it sits and whatever the type of the root.
EveryArrayHasItems ==
    Normalized1 => AllArraysHaveItems(schemaCall.output)

\* the items the rule gives to an array field of the given name
ItemsByName(name) ==
    IF name = "actions"
    THEN [EmptySchema EXCEPT
             !.type = "object", !.hasProperties = TRUE,
             !.properties = <<Prop("type", [EmptySchema EXCEPT !.type = "string"]),
                              Prop("selector", [EmptySchema EXCEPT !.type = "string"])>>]
    ELSE [EmptySchema EXCEPT !.type = "string"]

\* the node out is the node in with items chosen by the field name where
\* items were assigned and with its own items kept
RECURSIVE ItemsAgree(_, _, _)
ItemsAgree(in, out, name) ==
    LET AgreeAll(ins, outs) ==
            /\ Len(outs) = Len(ins)
            /\ \A i \in 1..Len(ins) : ItemsAgree(ins[i], outs[i], "")
        AgreeKeyed(ins, outs, named) ==
            /\ Len(outs) = Len(ins)
            /\ \A i \in 1..Len(ins) :
                  /\ outs[i].key = ins[i].key
                  /\ ItemsAgree(ins[i].schema, outs[i].schema,
                                IF named THEN ins[i].key ELSE "")
    IN  /\ out.type = in.type
        /\ IF in.type = "array" /\ in.items = << >>
           THEN \/ out.items = << >>
                \/ WithoutContext(out.items[1]) = ItemsByName(name)
           ELSE /\ AgreeAll(in.items, out.items)
                /\ \A i \in 1..Len(in.items) :
                      AllArraysHaveItems(in.items[i]) =>
                          WithoutContext(out.items[i]) = in.items[i]
        /\ AgreeKeyed(in.properties, out.properties, TRUE)
        /\ AgreeKeyed(in.patternProperties, out.patternProperties, FALSE)
        /\ AgreeAll(in.oneOf, out.oneOf)
        /\ AgreeAll(in.anyOf, out.anyOf)
        /\ AgreeAll(in.allOf, out.allOf)

\* C19: wherever the normalization assigns items to an array that lacked
\* them, a field named actions gets the object items with string type and
\* selector, a field named formats gets string items, any other array gets
\* string items; an array that has items keeps them.
ItemsChosenByName ==
    Normalized1 => ItemsAgree(schemaCall.input, schemaCall.output, "")

\* C19 witness: the object with the array properties actions, formats and
\* tags was normalized and each array got its items
ThreeArraysNormalized ==
    /\ Normalized1
    /\ schemaCall.input = ThreeArrays
    /\ WithoutContext(schemaCall.output.properties[1].schema.items[1]) = ItemsByName("actions")
    /\ WithoutContext(schemaCall.output.properties[2].schema.items[1]) = ItemsByName("formats")
    /\ WithoutContext(schemaCall.output.properties[3].schema.items[1]) = ItemsByName("tags")

\* C20: normalizing the output of a normalization returns that output.
NormalizationIdempotent ==
    schemaCall.pc = "again" => schemaCall.output = schemaCall.input

\* C20 witness: a normalized schema that carries parent references was
\* normalized again
NormalizedTwice ==
    /\ schemaCall.pc = "again"
    /\ Circular(schemaCall.input)
    /\ schemaCall.output = schemaCall.input

----------------------------------------------------------------------------
(* Properties of the adapter construction *)

\* the entries of the fetched catalog for which an adapter was constructed
Constructed ==
    SelectSeq(loadCall.response.tools,
              LAMBDA info : info.name # "" /\ info.construct = "ok")

\* the adapters correspond one to one, in order, to the constructed entries
OneAdapterEach ==
    /\ Len(loadCall.tools) = Len(Constructed)
    /\ \A i \in 1..Len(Constructed) : loadCall.tools[i].name = Constructed[i].name

OneAdapterPerNamedEntry ==
    loadCall.pc = "done" /\ loadCall.response.ok =>
        /\ OneAdapterEach
        /\ \A i \in 1..Len(loadCall.response.tools) :
              LET info == loadCall.response.tools[i]
                  before == SelectSeq(SubSeq(loadCall.response.tools, 1, i - 1),
                                      LAMBDA e : e.name # "" /\ e.construct = "ok")
              IN  info.name # "" /\ info.construct = "ok"
                  => loadCall.tools[Len(before) + 1].name = info.name

\* C22 witness: the entry after an unnamed entry and the entry after a
\* failed conversion were loaded
LoadedPastSkippedEntry ==
    /\ loadCall.pc = "done"
    /\ Len(loadCall.response.tools) = 2
    /\ loadCall.response.tools[1].name = "add"
    /\ loadCall.response.tools[1].construct = "throws"
    /\ loadCall.response.tools[2].name = "multiply"
    /\ Len(loadCall.tools) = 1
    /\ loadCall.tools[1].name = "multiply"

----------------------------------------------------------------------------
(* Properties of the registry: failing catalog fetch *)

\* the log of the running initializeConnections() call after a step
LogAfterStep == IF initCall'.pc = "idle" THEN result'.log ELSE initCall'.log

\* the step in which await loadMcpTools(client) settles after listTools failed
CatalogFetchFails ==
    /\ initCall.pc = "catalog"
    /\ LogAfterStep[Len(initCall.log)].catalog = "fail"

\* C23: when listTools fails for a connection whose session was established,
\* the connection gets an empty tool list, the call does not raise, the
\* session stays the one getClient(name) returns, and its cleanup stays
\* stored; every cleanup stored when a close() starts has been invoked when
\* that close() has returned.
CatalogFailureKeepsSession ==
    /\ [][CatalogFetchFails =>
            LET entry == initCall.log[Len(initCall.log)]
            IN  /\ serverNameToTools'[entry.name] = << >>
                /\ entry.name \in DOMAIN clients'
                /\ clients'[entry.name] = entry.sid
                /\ \E i \in DOMAIN cleanupFunctions' : cleanupFunctions'[i] = entry.sid
                /\ sessions'[entry.sid].cleanupCalls = 0
                /\ initCall'.pc # "raise"
                /\ initCall'.pc = "idle" =>
                      /\ result'.status = "returned"
                      /\ result'.ret[entry.name] = << >>]_vars
    /\ [](result.op = "close" /\ result.status = "returned" =>
            \A i \in DOMAIN result.pre.cleanups :
                sessions[result.pre.cleanups[i]].cleanupCalls >= 1)

\* C23 witness: connectAll() has returned after the catalog fetch of a
\* connected server failed, and the session is still registered
ReturnedAfterCatalogFailure ==
    /\ initCall.pc = "idle"
    /\ result.op = "initializeConnections"
    /\ result.status = "returned"
    /\ \E i \in DOMAIN result.log :
          /\ result.log[i].connect = "ok"
          /\ result.log[i].catalog = "fail"
          /\ clients[result.log[i].name] = result.log[i].sid
          /\ result.ret[result.log[i].name] = << >>

----------------------------------------------------------------------------
(* Properties of the prompt template *)

\* C24: when getPrompt threw or did not answer within the timeout, the call
\* resolves with a locally constructed list of at least one message.
FallbackNeverRejects ==
    promptCall.pc = "done" /\ promptCall.cause \in {"threw", "timeout"} =>
        /\ promptCall.outcome.status = "resolved"
        /\ promptCall.outcome.source \in {"code-review", "explain-code", "generic"}
        /\ Len(promptCall.outcome.roles) > 0

----------------------------------------------------------------------------
(* Properties of the resource and prompt utilities: late settlements *)

\* C25: a timed call settles once, with a value or with a failure and never
\* with both.  After the timer has settled it, a response that arrives
\* later leaves the outcome as it is, and so does a timer that runs after
\* the request has settled it.  The only message ever handed to the
\* transport is the request: nothing cancels it.
TimedCallSettlesOnce ==
    /\ [](/\ timedCall.pc = "racing" =>
                timedCall.settled = 0 /\ timedCall.outcome.status = "none"
          /\ timedCall.pc = "done" =>
                /\ timedCall.settled = 1
                /\ timedCall.outcome.status \in {"resolved", "rejected"}
                /\ timedCall.outcome.status = "resolved" =>
                      timedCall.outcome.cause = "" /\ timedCall.outcome.message = ""
                /\ timedCall.outcome.status = "rejected" =>
                      timedCall.outcome.value = "none"
          /\ \A i \in DOMAIN timedCall.sent : timedCall.sent[i] = "request"
          /\ Len(timedCall.sent) <= 1)
    /\ [][/\ timedCall.settledBy \in {"timer", "request"}
           /\ timedCall'.settledBy = timedCall.settledBy
           /\ timedCall'.pc = "done"
           => /\ timedCall'.outcome = timedCall.outcome
              /\ timedCall'.settled = timedCall.settled
              /\ timedCall'.sent = timedCall.sent]_vars

\* C25 witness: the caller got the timeout failure and a usable response
\* arrived afterwards
ResponseAfterTimeout ==
    /\ timedCall.pc = "done"
    /\ timedCall.settledBy = "timer"
    /\ timedCall.request = "valid"
    /\ timedCall.outcome.status = "rejected"
    /\ timedCall.settled = 1

----------------------------------------------------------------------------
(* Properties of the tool adapter: inputs that fail validation *)

\* C26: an object input that fails the schema validation does not end in
\* the validation error; the remote call is made with the coerced input.
InvalidObjectFallsBack ==
    toolCall.pc = "done" /\ toolCall.input = "invalidObject" =>
        /\ toolCall.sent = 1
        /\ toolCall.outcome # ValidationFailure

----------------------------------------------------------------------------
(* Properties of the tool adapter: invocations in flight together *)

\* C27: invocations start without waiting for one another, and whatever the
\* order of the answers, the outcome of each invocation is the one its own
\* answer gives; an invocation that has its outcome keeps it while the
\* others settle.
EachOutcomeFromOwnAnswer ==
    /\ [](\A i \in DOMAIN flights.calls :
             LET call == flights.calls[i]
             IN  /\ call.pc = "calling" =>
                       call.answer = NoAnswer /\ call.outcome = NoOutcome
                 /\ call.pc = "done" =>
                       /\ call.answer.kind = "response" =>
                             call.outcome = CallResolved(call.answer.resp)
                       /\ call.answer.kind = "error" =>
                             call.outcome = CallRejected(call.name, call.answer.err)
                       /\ call.answer.kind # "none")
    /\ [][\A i \in DOMAIN flights.calls :
             flights.calls[i].pc = "done" => flights'.calls[i] = flights.calls[i]]_vars

\* C27 witness: two invocations of the same tool on the same connection were
\* in flight together, the second was answered first, and they ended
\* differently
SecondAnsweredFirst ==
    /\ Len(flights.calls) = 2
    /\ flights.order = <<2, 1>>
    /\ flights.calls[1].server = flights.calls[2].server
    /\ flights.calls[1].name = flights.calls[2].name
    /\ flights.calls[1].outcome.status = "rejected"
    /\ flights.calls[2].outcome.status = "resolved"

----------------------------------------------------------------------------
(* Properties of overlapping registry calls *)

\* C28: whatever close() calls were made and however they interleave, no
\* cleanup action has been invoked more than once.
NoCleanupInvokedTwice ==
    \A sid \in DOMAIN sessions : sessions[sid].cleanupCalls <= 1

\* C29: every server name with a tool list has a session, and the cleanup
\* of every stored session is stored.
ToolsImplySessionAndCleanup ==
    /\ DOMAIN serverNameToTools \subseteq DOMAIN clients
    /\ \A name \in DOMAIN clients :
          \E i \in DOMAIN cleanupFunctions : cleanupFunctions[i] = clients[name]

----------------------------------------------------------------------------
(* Properties of the schema normalization: frame *)

\* out is the node in with nothing changed but required, properties and
\* items added where they were absent, and the same holds for the schemas
\* below it
RECURSIVE OnlyRepaired(_, _)
OnlyRepaired(in, out) ==
    LET Same(a, b) ==
            /\ Len(a) = Len(b)
            /\ \A i \in 1..Len(a) : OnlyRepaired(a[i], b[i])
        SameKeyed(a, b) ==
            /\ Len(a) = Len(b)
            /\ \A i \in 1..Len(a) :
                  a[i].key = b[i].key /\ OnlyRepaired(a[i].schema, b[i].schema)
    IN  /\ out.type = in.type
        /\ out.name = in.name
        /\ out.parent = in.parent
        /\ out.required = in.required
        /\ in.hasRequired => out.hasRequired
        /\ in.hasProperties => out.hasProperties
        /\ SameKeyed(in.properties, out.properties)
        /\ in.items # << >> => Same(in.items, out.items)
        /\ SameKeyed(in.patternProperties, out.patternProperties)
        /\ Same(in.oneOf, out.oneOf)
        /\ Same(in.anyOf, out.anyOf)
        /\ Same(in.allOf, out.allOf)

\* C30: the normalized schema is the given schema with required, properties
\* and items added where they were missing; no node has another key added
\* or a value changed.
NormalizationOnlyRepairs ==
    schemaCall.pc = "done" => OnlyRepaired(schemaCall.input, schemaCall.output)

====
